---- MODULE Spec2Model ----
(***************************************************************************)
(* Model of playwright-prometheus-remote-write-reporter.                   *)
(*                                                                         *)
(*   helpers.ts  Metric / Counter / Gauge   (src/src/helpers.ts 110-228)   *)
(*   utils.ts    Event                      (src/unnamed/part_001 49-73)   *)
(*   index.ts    PrometheusReporter         (src/unnamed/part_001 188-763) *)
(*                                                                         *)
(* A sample is modelled by its value only: the timestamp is Date.now(), an *)
(* environment reading no operation of the program ever reads back.        *)
(* Label maps are functions from label keys (strings) to strings.          *)
(***************************************************************************)
EXTENDS Integers, Sequences, FiniteSets, TLC

\* ------------------------------------------------------------------------
\* Bounds of the model
\* ------------------------------------------------------------------------

\* calls made on the metric of the library specification
MaxOps == 3
\* largest amount / value passed to inc, dec and set
MaxAmount == 2

\* ------------------------------------------------------------------------
\* JavaScript helpers
\* ------------------------------------------------------------------------

\* { ...a, ...b }
Spread(a, b) ==
  [k \in (DOMAIN a) \cup (DOMAIN b) |-> IF k \in DOMAIN b THEN b[k] ELSE a[k]]

\* const { key, ...rest } = m   (the rest part)
Rest(m, key) ==
  [k \in (DOMAIN m) \ {key} |-> m[k]]

EmptyLabels == [k \in {} |-> ""]

Digit(d) ==
  CASE d = 0 -> "0" [] d = 1 -> "1" [] d = 2 -> "2" [] d = 3 -> "3"
    [] d = 4 -> "4" [] d = 5 -> "5" [] d = 6 -> "6" [] d = 7 -> "7"
    [] d = 8 -> "8" [] d = 9 -> "9"

RECURSIVE NatToStr(_)
NatToStr(n) ==
  IF n < 10 THEN Digit(n) ELSE NatToStr(n \div 10) \o Digit(n % 10)

\* String(n) for an integer n
ToStr(n) ==
  IF n < 0 THEN "-" \o NatToStr(0 - n) ELSE NatToStr(n)

\* ------------------------------------------------------------------------
\* helpers.ts: Metric, Counter, Gauge
\* ------------------------------------------------------------------------

\* a check that only looks for the key: an empty name passes
MetricCtorThrowsIfAbsent(metadata) ==
  "name" \notin DOMAIN metadata

\* the check of the Metric constructor: `if (!metadata.name) throw`
MetricCtorThrows(metadata) ==
  \/ "name" \notin DOMAIN metadata
  \/ metadata["name"] = ""

\* the error of the Metric constructor
NameRequiredError ==
  [name |-> "Error", message |-> "\"name\" property for metadata is required"]

\* the parameter `initialValue = 0`: args is << >> when the argument is left out
InitialValue(args) == IF args = << >> THEN 0 ELSE args[1]

\* Counter constructor (Gauge inherits it); kind records the class
NewMetric(kind, metadata, initialValue) ==
  [kind         |-> kind,
   metadata     |-> metadata,
   initialValue |-> initialValue,
   counter      |-> initialValue,
   series       |-> [labels  |-> Spread([n \in {"__name__"} |-> metadata["name"]],
                                        Rest(metadata, "name")),
                     samples |-> <<initialValue>>]]

NewCounter(metadata, initialValue) == NewMetric("Counter", metadata, initialValue)
NewGauge(metadata, initialValue) == NewMetric("Gauge", metadata, initialValue)

\* Metric._getSeries
GetSeries(m) == m.series

\* labels() that replaces the label set by the map it is given
LabelsReplaced(m, labels) ==
  [m EXCEPT !.series.labels = labels]

\* labels() with the spread the other way round: earlier labels win
LabelsReversed(m, labels) ==
  [m EXCEPT !.series.labels = Spread(labels, m.series.labels)]

\* Metric.labels
Labels(m, labels) ==
  [m EXCEPT !.series.labels = Spread(m.series.labels, labels)]

\* inc() that adds to the value and appends no sample
IncNoSample(m, value) ==
  [m EXCEPT !.counter = m.counter + value]

\* Counter.inc
Inc(m, value) ==
  [m EXCEPT !.counter = m.counter + value,
            !.series.samples = Append(m.series.samples, m.counter + value)]

\* Gauge.dec
Dec(m, value) ==
  [m EXCEPT !.counter = m.counter - value,
            !.series.samples = Append(m.series.samples, m.counter - value)]

\* Gauge.set
Set(m, value) ==
  [m EXCEPT !.counter = value,
            !.series.samples = Append(m.series.samples, value)]

\* Gauge.zero
Zero(m) == Set(m, 0)

\* a reset that clears the receiver in place
ResetThisInPlace(m) == NewMetric(m.kind, m.metadata, m.initialValue)

\* the receiver after reset(): the method assigns no field of `this`
ResetThis(m) == m

\* a reset whose result keeps the labels of the receiver
ResetKeepLabels(m) ==
  [NewMetric(m.kind, m.metadata, m.initialValue) EXCEPT
     !.series.labels = m.series.labels]

\* Counter.reset / Gauge.reset: the instance it returns
Reset(m) == NewMetric(m.kind, m.metadata, m.initialValue)

\* ------------------------------------------------------------------------
\* utils.ts: Event.  JSON values are tagged records.
\* ------------------------------------------------------------------------

EventName == "prometheus-remote-writer"

JNull == [t |-> "null"]
JNum(n) == [t |-> "number", v |-> n]
JStr(s) == [t |-> "string", v |-> s]
JArr(s) == [t |-> "array", a |-> s]
JObj(f) == [t |-> "object", o |-> f]

\* typeof x
TypeOf(j) == IF j.t \in {"object", "array", "null"} THEN "object" ELSE j.t

\* `key in x` for an x that is an object (arrays have index keys only)
HasKey(j, key) == j.t = "object" /\ key \in DOMAIN j.o

\* x === "s"
IsString(j, s) == j.t = "string" /\ j.v = s

\* Event.is
EventIs(input) ==
  /\ TypeOf(input) = "object"
  /\ input.t # "null"
  /\ HasKey(input, "name")
  /\ HasKey(input, "payload")
  /\ IsString(input.o["name"], EventName)
  /\ TypeOf(input.o["payload"]) = "object"

\* ------------------------------------------------------------------------
\* Inputs of the host: tests, results, steps, errors, config, output chunks
\* ------------------------------------------------------------------------

\* optional fields of host objects are absent from the record's domain
Has(r, key) == key \in DOMAIN r

\* path.relative(process.cwd(), file), on the files of the model
PathRelative(file) ==
  CASE file = "/cwd/a.spec.ts" -> "a.spec.ts"
    [] file = "/cwd/sub/b.spec.ts" -> "sub/b.spec.ts"
    [] file = "unknown" -> "unknown"

\* PrometheusReporter.location
Location(x) ==
  PathRelative(IF Has(x, "location") THEN x.location.file ELSE "unknown")
    \o ":" \o (IF Has(x, "location") THEN ToStr(x.location.line) ELSE "undefined")
    \o ":" \o (IF Has(x, "location") THEN ToStr(x.location.column) ELSE "undefined")

TestA ==
  [id |-> "t1", title |-> "logs in", parentTitle |-> "auth",
   location |-> [file |-> "/cwd/a.spec.ts", line |-> 3, column |-> 1],
   expectedStatus |-> "passed",
   annotations |-> <<[type |-> "issue", description |-> "JIRA-1"]>>]

TestB ==
  [id |-> "t2", title |-> "logs out", parentTitle |-> "auth",
   location |-> [file |-> "/cwd/sub/b.spec.ts", line |-> 12, column |-> 5],
   expectedStatus |-> "failed",
   annotations |-> << >>]

\* an attachment with a 10-byte body and one without body
Attach10 == [name |-> "shot", contentType |-> "text/plain", body |-> "0123456789"]
AttachFile == [name |-> "trace", contentType |-> "application/zip",
               path |-> "/cwd/trace.zip"]

Result(status, duration, retry, attachments) ==
  [status |-> status, duration |-> duration, retry |-> retry,
   parallelIndex |-> 0, workerIndex |-> retry,
   attachments |-> attachments, stepsCount |-> 1]

\* the (test, result) pairs the host reports to onTestEnd
TestEnds ==
  { <<TestA, Result("passed", 5, 0, <<Attach10>>)>>,
    <<TestB, Result("passed", 7, 1, <<Attach10, AttachFile>>)>>,
    <<TestB, Result("failed", 7, 0, << >>)>>,
    <<TestA, Result("skipped", 0, 0, << >>)>>,
    <<TestA, Result("timedOut", 9, 1, << >>)>>,
    <<TestB, Result("interrupted", 2, 0, << >>)>> }

\* a step error; its message is a sequence of lines and line breaks
StepError ==
  [message |-> <<"expected 1", "\n", "received 2">>,
   stack |-> "Error: at a.spec.ts:4",
   location |-> [file |-> "/cwd/a.spec.ts", line |-> 4, column |-> 9]]

Step(duration, withError) ==
  IF withError
  THEN [category |-> "expect", duration |-> duration, startTime |-> "Thu Nov 05",
        titlePath |-> <<"logs in", "expect title">>, stepsCount |-> 0,
        location |-> [file |-> "/cwd/a.spec.ts", line |-> 4, column |-> 3],
        error |-> StepError]
  ELSE [category |-> "test.step", duration |-> duration, startTime |-> "Thu Nov 05",
        titlePath |-> <<"logs in", "open page">>, stepsCount |-> 2,
        location |-> [file |-> "/cwd/a.spec.ts", line |-> 4, column |-> 3]]

\* the (test, result, step) triples the host reports to onStepEnd
StepEnds ==
  { <<TestA, Result("passed", 5, 0, << >>), Step(2, FALSE)>>,
    <<TestA, Result("failed", 5, 0, << >>), Step(3, TRUE)>> }

\* the errors the host reports to onError
TestErrors ==
  { [message |-> "boom", location |-> [file |-> "/cwd/a.spec.ts", line |-> 1, column |-> 1]],
    [value |-> "thrown string"] }

\* the configuration the host reports to onBegin
Config ==
  [workers |-> 2, forbidOnly |-> FALSE, configFile |-> "/cwd/playwright.config.ts",
   fullyParallel |-> TRUE, preserveOutput |-> "always", quiet |-> FALSE,
   updateSnapshots |-> "missing", version |-> "1.52.0",
   projects |-> <<[name |-> "chromium", outputDir |-> "/cwd/out", repeatEach |-> 1,
                   snapshotDir |-> "/cwd/snap", testDir |-> "/cwd", timeout |-> 30000]>>]

\* readings of node:process and node:os
CpuReadings == {[user |-> 7, system |-> 3]}
FreememReadings == {64}
MemoryReadings ==
  {[rss |-> 50, heapTotal |-> 40, heapUsed |-> 30, external |-> 2, arrayBuffers |-> 1]}
Argv == <<"node", "playwright">>
Versions == [node |-> "22.0.0", v8 |-> "12.4"]
OsFacts ==
  [arch |-> "x64", cpusCount |-> "4", availableParallelism |-> "4",
   machine |-> "x86_64", username |-> "ci", shell |-> "/bin/sh", uid |-> "1000",
   gid |-> "1000", homedir |-> "/home/ci", platform |-> "linux",
   release |-> "6.1", type |-> "Linux", version |-> "#1 SMP"]

\* the options the reporter is constructed with (serverUrl is a valid URL)
ReporterOptions ==
  { [serverUrl |-> "http://x/write"],
    [serverUrl |-> "http://x/write", prefix |-> "my_",
     env |-> [CI |-> "true"]] }

\* ------------------------------------------------------------------------
\* Output chunks and JSON.parse
\* ------------------------------------------------------------------------

ChunkPlain == "plain log line"
ChunkNumber == "123"
ChunkObject == "{\"a\":1}"
ChunkSpaced == "{ \"a\": 1 }"
ChunkEvent ==
  "{\"name\":\"prometheus-remote-writer\",\"payload\":{\"labels\":{\"__name__\":\"x\"},\"samples\":[{\"value\":1,\"timestamp\":0}]}}"
ChunkEventEmpty == "{\"name\":\"prometheus-remote-writer\",\"payload\":{}}"
ChunkEventNull == "{\"name\":\"prometheus-remote-writer\",\"payload\":null}"

\* the chunks of the model
Chunks ==
  { ChunkPlain, ChunkNumber, ChunkObject, ChunkSpaced, ChunkEvent,
    ChunkEventEmpty, ChunkEventNull }

\* a JSON sample {value, timestamp}
JSample(value) == JObj([value |-> JNum(value), timestamp |-> JNum(0)])

SyntaxError == [t |-> "SyntaxError"]

\* JSON.parse(text) on the chunks of the model; SyntaxError when it throws
JSONparse(text) ==
  CASE text = ChunkPlain -> SyntaxError
    [] text = ChunkNumber -> JNum(123)
    [] text = ChunkObject -> JObj([a |-> JNum(1)])
    [] text = ChunkSpaced -> JObj([a |-> JNum(1)])
    [] text = ChunkEvent ->
         JObj([name |-> JStr(EventName),
               payload |-> JObj([labels |-> JObj([n \in {"__name__"} |-> JStr("x")]),
                                 samples |-> JArr(<<JSample(1)>>)])])
    [] text = ChunkEventEmpty ->
         JObj([name |-> JStr(EventName), payload |-> JObj(EmptyLabels)])
    [] text = ChunkEventNull ->
         JObj([name |-> JStr(EventName), payload |-> JNull])

\* JSON.stringify(value) on the values JSON.parse yields in the model: the
\* text without insignificant white space
JSONstringify(j) ==
  CASE j = JSONparse(ChunkNumber) -> ChunkNumber
    [] j = JSONparse(ChunkObject) -> ChunkObject
    [] j = JSONparse(ChunkEvent) -> ChunkEvent
    [] j = JSONparse(ChunkEventEmpty) -> ChunkEventEmpty
    [] j = JSONparse(ChunkEventNull) -> ChunkEventNull

\* a parsed Timeseries as the series the push client receives: its label map
\* and the values of its samples
JSONlabels(labels) == [k \in DOMAIN labels.o |-> labels.o[k].v]
JSONsamples(samples) == [i \in 1..Len(samples.a) |-> samples.a[i].o["value"].v]

\* Array.prototype.join
RECURSIVE Join(_, _)
Join(seq, sep) ==
  IF Len(seq) = 0 THEN ""
  ELSE IF Len(seq) = 1 THEN seq[1]
  ELSE seq[1] \o sep \o Join(Tail(seq), sep)

\* the label keys of the metrics of user code, in the order the text of a
\* document lists them
JSONkeys == <<"__name__", "endpoint", "region", "status", "name">>

\* the JSON value of a Timeseries
ToJSONseries(series) ==
  JObj([labels |-> JObj([k \in DOMAIN series.labels |-> JStr(series.labels[k])]),
        samples |-> JArr([i \in 1..Len(series.samples) |->
                            JSample(series.samples[i])])])

\* the JSON text of a Timeseries
TextOfSeries(series) ==
  LET keys == SelectSeq(JSONkeys, LAMBDA k : k \in DOMAIN series.labels)
      label(i) == "\"" \o keys[i] \o "\":\"" \o series.labels[keys[i]] \o "\""
      sample(i) == "{\"value\":" \o ToStr(series.samples[i]) \o ",\"timestamp\":0}"
  IN "{\"labels\":{" \o Join([i \in 1..Len(keys) |-> label(i)], ",")
       \o "},\"samples\":["
       \o Join([i \in 1..Len(series.samples) |-> sample(i)], ",") \o "]}"

\* JSON.stringify(event) for an Event: the text it writes and the JSON value
\* JSON.parse makes of that text
JSONstringifyEvent(event) ==
  [text |-> "{\"payload\":" \o TextOfSeries(event.payload)
              \o ",\"name\":\"" \o event.name \o "\"}",
   json |-> JObj([payload |-> ToJSONseries(event.payload),
                  name |-> JStr(event.name)])]

\* ------------------------------------------------------------------------
\* index.ts: the metrics PrometheusReporter holds
\* ------------------------------------------------------------------------

DEFAULT_PREFIX == "pw_"

\* argv.map((value, index) => [`arg_${index}`, value])
ArgvLabels ==
  [k \in {"arg_" \o ToStr(i - 1) : i \in 1..Len(Argv)} |->
     Argv[CHOOSE i \in 1..Len(Argv) : k = "arg_" \o ToStr(i - 1)]]

Name(n) == [k \in {"name"} |-> n]

\* the field initialisers of the class; node_env is built by the constructor
FieldMetrics(env) ==
  [test_step_total_count |->
     NewCounter([name |-> "test_step_total_count",
                 description |-> "count of all test_step that was executed in all time"], 0),
   test_step_total_duration |->
     NewGauge([name |-> "test_step_total_duration", unit |-> "ms",
               description |-> "duration in milliseconds of all test_step that was executed in all time"], 0),
   test_annotation_count |->
     NewCounter([name |-> "test_annotation_count",
                 description |-> "Count of annotations in tests"], 0),
   test_step_duration |->
     NewGauge([name |-> "test_step_duration", unit |-> "ms",
               description |-> "Total duration of all test steps"], 0),
   test_step_error_count |->
     NewCounter([name |-> "test_step_error_count",
                 description |-> "Count of errors in test steps"], 0),
   test_step_total_error |->
     NewCounter([name |-> "test_step_total_error",
                 description |-> "Total errors in test steps"], 0),
   test_step |->
     NewCounter([name |-> "test_step", description |-> "Individual test steps"], 0),
   pw_stderr |->
     NewCounter([name |-> "stderr",
                 description |-> "Standard error stream from Playwright"], 0),
   pw_stdout |->
     NewCounter([name |-> "stdout",
                 description |-> "Standard output stream from Playwright"], 0),
   pw_config |->
     NewCounter([name |-> "config",
                 description |-> "Configuration settings for Playwright"], 1),
   test_attachment_count |->
     NewCounter([name |-> "test_attachment_count",
                 description |-> "Count of attachments in tests"], 0),
   test_attachment_size |->
     NewGauge([name |-> "test_attachment_size", unit |-> "bytes",
               description |-> "information about attachment size for each test"], 0),
   tests_total_attachment_size |->
     NewGauge([name |-> "tests_attachment_total_size", unit |-> "bytes"], 0),
   errors_count |-> NewCounter(Name("error_count"), 0),
   test_errors |-> NewCounter(Name("test_errors"), 0),
   tests_total_attachment |-> NewCounter(Name("tests_attachment_total_count"), 0),
   test_duration |-> NewGauge([name |-> "test_duration", unit |-> "ms"], 0),
   test |-> NewCounter(Name("test"), 0),
   test_retry_count |-> NewCounter(Name("test_retry_count"), 0),
   total_duration |-> NewGauge([name |-> "tests_total_duration", unit |-> "ms"], 0),
   test_total_count |-> NewCounter(Name("tests_total_count"), 0),
   skipped_tests_count |-> NewCounter(Name("tests_skipped_count"), 0),
   timed_out_tests_count |-> NewCounter(Name("tests_timed_out_count"), 0),
   passed_count |-> NewCounter(Name("tests_passed_count"), 0),
   failed_count |-> NewCounter(Name("tests_failed_count"), 0),
   node_memory_heap_total |->
     NewGauge([name |-> "node_memory_heap_total", unit |-> "bytes"], 0),
   node_memory_rss |-> NewGauge([name |-> "node_memory_rss", unit |-> "bytes"], 0),
   node_memory_heap_used |->
     NewGauge([name |-> "node_memory_heap_used", unit |-> "bytes"], 0),
   node_memory_external |->
     NewGauge([name |-> "node_memory_external", unit |-> "bytes"], 0),
   node_memory_free |-> NewGauge([name |-> "node_memory_free", unit |-> "bytes"], 0),
   node_memory_array_buffers |->
     NewGauge([name |-> "node_memory_array_buffers", unit |-> "bytes"], 0),
   node_cpu_user |-> NewGauge(Name("node_cpu_user"), 0),
   node_cpu_system |-> NewGauge(Name("node_cpu_system"), 0),
   node_argv |-> NewCounter(Spread(Name("node_argv"), ArgvLabels), 1),
   node_os |-> NewCounter(Spread(Name("node_os"), OsFacts), 1),
   node_env |-> NewCounter(Spread(Name("env"), env), 1),
   node_versions |-> NewCounter(Spread(Name("node_versions"), Versions), 1)]

\* ------------------------------------------------------------------------
\* index.ts: label sets and metric updates of the hooks
\* ------------------------------------------------------------------------

\* message.replace(/\r?\n|\r/g, " ") on a message given as lines and breaks
RECURSIVE ReplaceNewlines(_)
ReplaceNewlines(tokens) ==
  IF Len(tokens) = 0 THEN ""
  ELSE (IF tokens[1] \in {"\n", "\r\n", "\r"} THEN " " ELSE tokens[1])
         \o ReplaceNewlines(Tail(tokens))

\* Boolean to String
BoolStr(b) == IF b THEN "true" ELSE "false"

\* onStepEnd: the labels of a step, with the error labels when it has an error
StepLabels(test, result, step) ==
  LET base ==
        [category |-> step.category,
         path |-> Location(step),
         testId |-> test.id,
         duration |-> ToStr(step.duration),
         startTime |-> step.startTime,
         titlePath |-> Join(step.titlePath, "->"),
         stepsCount |-> ToStr(step.stepsCount),
         testTitle |-> test.title,
         stepInnerCount |-> ToStr(step.stepsCount),
         parallelIndex |-> ToStr(result.parallelIndex),
         retryCount |-> ToStr(result.retry),
         status |-> result.status]
      err ==
        [errorMessage |-> ReplaceNewlines(step.error.message),
         errorSnippet |-> IF Has(step.error, "snippet") THEN step.error.snippet
                          ELSE "<unknown snippet>",
         errorStack |-> IF Has(step.error, "stack") THEN step.error.stack
                        ELSE "<empty stack>",
         errorValue |-> IF Has(step.error, "value") THEN step.error.value
                        ELSE "<unknown value>",
         errorPath |-> Location(step.error)]
  IN IF Has(step, "error") THEN Spread(base, err) ELSE base

\* a refresh that leaves out the free memory of the system
UpdateNodejsStatsWithoutFree(ms, r) ==
  [ms EXCEPT !.node_cpu_user = Set(@, r.cpu.user),
             !.node_cpu_system = Set(@, r.cpu.system),
             !.node_memory_array_buffers = Set(@, r.mem.arrayBuffers),
             !.node_memory_external = Set(@, r.mem.external),
             !.node_memory_heap_total = Set(@, r.mem.heapTotal),
             !.node_memory_heap_used = Set(@, r.mem.heapUsed),
             !.node_memory_rss = Set(@, r.mem.rss)]

\* updateNodejsStats, with the readings r of the process and the system
UpdateNodejsStats(ms, r) ==
  [ms EXCEPT !.node_cpu_user = Set(@, r.cpu.user),
             !.node_cpu_system = Set(@, r.cpu.system),
             !.node_memory_free = Set(@, r.free),
             !.node_memory_array_buffers = Set(@, r.mem.arrayBuffers),
             !.node_memory_external = Set(@, r.mem.external),
             !.node_memory_heap_total = Set(@, r.mem.heapTotal),
             !.node_memory_heap_used = Set(@, r.mem.heapUsed),
             !.node_memory_rss = Set(@, r.mem.rss)]

Readings == [cpu : CpuReadings, free : FreememReadings, mem : MemoryReadings]

\* updateResults without the branch for tests that timed out
UpdateResultsNoTimedOut(ms, result) ==
  [ms EXCEPT !.passed_count = IF result.status = "passed" THEN Inc(@, 1) ELSE @,
             !.failed_count = IF result.status = "failed" THEN Inc(@, 1) ELSE @,
             !.skipped_tests_count =
                IF result.status = "skipped" THEN Inc(@, 1) ELSE @,
             !.test_total_count = Inc(@, 1),
             !.total_duration = Inc(@, result.duration)]

\* updateResults
UpdateResults(ms, result) ==
  [ms EXCEPT !.passed_count = IF result.status = "passed" THEN Inc(@, 1) ELSE @,
             !.failed_count = IF result.status = "failed" THEN Inc(@, 1) ELSE @,
             !.skipped_tests_count =
                IF result.status = "skipped" THEN Inc(@, 1) ELSE @,
             !.timed_out_tests_count =
                IF result.status = "timedOut" THEN Inc(@, 1) ELSE @,
             !.test_total_count = Inc(@, 1),
             !.total_duration = Inc(@, result.duration)]

\* attach.body?.length ?? 0
AttachSize(attach) == IF Has(attach, "body") THEN Len(attach.body) ELSE 0

\* onTestEnd: the labels test_attachment_count gets for one attachment
AttachmentLabels(test, attach) ==
  [size |-> ToStr(AttachSize(attach)),
   path |-> IF Has(attach, "path") THEN attach.path ELSE "",
   contentType |-> attach.contentType,
   attachmentName |-> attach.name,
   body |-> IF Has(attach, "body") THEN attach.body ELSE "",
   testId |-> test.id,
   testTitle |-> test.title,
   unit |-> "bytes"]

\* onTestEnd: result.attachments.forEach(...)
RECURSIVE ForEachAttachment(_, _, _)
ForEachAttachment(ms, test, attachments) ==
  IF Len(attachments) = 0 THEN ms
  ELSE LET attach == Head(attachments)
           size == AttachSize(attach)
           labels == [testId |-> test.id, testTitle |-> test.title, unit |-> "bytes"]
           next ==
             [ms EXCEPT !.tests_total_attachment_size = Inc(@, size),
                        !.test_attachment_count =
                           Inc(Labels(@, AttachmentLabels(test, attach)), 1),
                        !.test_attachment_size = Inc(Labels(@, labels), size),
                        !.tests_total_attachment = Inc(@, 1)]
       IN ForEachAttachment(next, test, Tail(attachments))

\* onTestEnd: test.annotations.forEach(...)
RECURSIVE ForEachAnnotation(_, _, _)
ForEachAnnotation(ms, test, annotations) ==
  IF Len(annotations) = 0 THEN ms
  ELSE LET annotation == Head(annotations)
           labels ==
             [type |-> annotation.type,
              description |-> IF Has(annotation, "description")
                              THEN annotation.description ELSE "",
              testId |-> test.id,
              testTitle |-> test.title]
           next == [ms EXCEPT !.test_annotation_count = Inc(Labels(@, labels), 1)]
       IN ForEachAnnotation(next, test, Tail(annotations))

\* the labels of the finished test with the expected status as actualStatus
TestLabelsExpected(test, result) ==
  [title |-> test.title,
   id |-> test.id,
   suite |-> test.parentTitle,
   location |-> Location(test),
   expectedStatus |-> test.expectedStatus,
   actualStatus |-> test.expectedStatus,
   duration |-> ToStr(result.duration),
   parallelIndex |-> ToStr(result.parallelIndex),
   attachmentsCount |-> ToStr(Len(result.attachments)),
   stepsCount |-> ToStr(result.stepsCount),
   workerIndex |-> ToStr(result.workerIndex),
   retryCount |-> ToStr(result.retry)]

\* onTestEnd: the labels of the finished test
TestLabels(test, result) ==
  [title |-> test.title,
   id |-> test.id,
   suite |-> test.parentTitle,
   location |-> Location(test),
   expectedStatus |-> test.expectedStatus,
   actualStatus |-> result.status,
   duration |-> ToStr(result.duration),
   parallelIndex |-> ToStr(result.parallelIndex),
   attachmentsCount |-> ToStr(Len(result.attachments)),
   stepsCount |-> ToStr(result.stepsCount),
   workerIndex |-> ToStr(result.workerIndex),
   retryCount |-> ToStr(result.retry)]

\* mapTimeseries that puts the prefix in front of the name twice
MapTimeseriesTwice(pfx, series) ==
  [labels |->
     Spread([n \in {"__name__"} |->
               pfx \o pfx \o (IF "__name__" \in DOMAIN series.labels
                              THEN series.labels["__name__"] ELSE "undefined")],
            Rest(series.labels, "__name__")),
   samples |-> series.samples]

\* mapTimeseries on a series: the name gets the prefix, the samples are shared
MapTimeseries(pfx, series) ==
  [labels |->
     Spread([n \in {"__name__"} |->
               pfx \o (IF "__name__" \in DOMAIN series.labels
                       THEN series.labels["__name__"] ELSE "undefined")],
            Rest(series.labels, "__name__")),
   samples |-> series.samples]

\* mapTimeseries on a Counter or Gauge
MapMetric(pfx, m) == MapTimeseries(pfx, GetSeries(m))

\* mapTimeseries on a parsed payload throws a TypeError when it destructures
\* the labels of a payload that is null or has no labels
MapPayloadThrows(payload) ==
  \/ payload.t = "null"
  \/ ~HasKey(payload, "labels")
  \/ payload.o["labels"].t = "null"

\* mapTimeseries on a parsed payload that has labels and samples
MapPayload(pfx, payload) ==
  MapTimeseries(pfx, [labels |-> JSONlabels(payload.o["labels"]),
                      samples |-> JSONsamples(payload.o["samples"])])

\* ------------------------------------------------------------------------
\* State
\* ------------------------------------------------------------------------

VARIABLES
  metrics,      \* PrometheusReporter: the Counter / Gauge each field holds
  pw_projects,  \* PrometheusReporter.pw_projects
  prefix,       \* PrometheusReporter.prefix
  options,      \* PrometheusReporter.options
  cpuDelta,     \* PrometheusReporter.cpuDelta
  memoryDelta,  \* PrometheusReporter.memoryDelta
  phase,        \* where the host is in the run: new, threw, constructed,
                \* running, ended, exited
  tasks,        \* hook invocations suspended at an `await this.send(...)`
  pushes,       \* the calls of pushTimeseries, in call order, with their outcome
  hist,         \* the hook invocations, in call order, with their outcome
  a,            \* a metric user code holds (helpers.ts)
  b,            \* the metric the last a.reset() returned
  ops,          \* the calls user code made since the construction of `a`
  stdout,       \* the documents collect() wrote to process.stdout
  evIn,         \* the last input Event.is was applied to
  evOut,        \* what Event.is returned for it
  host,         \* whether the host waits for the promise of an async hook
  processEnv,   \* process.env of the run
  ctorCall,     \* the last constructor call: class and arguments
  thrown        \* the error that call threw

reporterVars == <<metrics, pw_projects, prefix, options, cpuDelta, memoryDelta,
                  phase, tasks, pushes, hist>>
metricVars == <<a, b, ops, stdout>>
eventVars == <<evIn, evOut>>
runVars == <<host, processEnv>>
ctorVars == <<ctorCall, thrown>>
vars == <<metrics, pw_projects, prefix, options, cpuDelta, memoryDelta, phase,
          tasks, pushes, hist, a, b, ops, stdout, evIn, evOut, host,
          processEnv, ctorCall, thrown>>

None == [t |-> "undefined"]

\* ------------------------------------------------------------------------
\* index.ts: the constructor of PrometheusReporter
\* ------------------------------------------------------------------------

\* the process environments of the model
ProcessEnvs ==
  { [API_TOKEN |-> "s3cr3t", LANG |-> "C"],
    [API_TOKEN |-> "t0k3n"] }

\* options without a usable serverUrl: none, the empty string, no URL
BadReporterOptions ==
  { EmptyLabels,
    [prefix |-> "my_"],
    [serverUrl |-> ""],
    [serverUrl |-> "not a url"] }

\* every options object the constructor is called with
CtorOptions ==
  ReporterOptions \cup BadReporterOptions \cup {[serverUrl |-> "http://x"]}

\* the error `new URL(input)` throws when input does not parse
InvalidUrlError ==
  [name |-> "TypeError", code |-> "ERR_INVALID_URL", message |-> "Invalid URL"]

\* the error of the fallback behind `??`
NotDefinedError ==
  [name |-> "TypeError",
   message |-> "'serverUrl' is not defined for 'playwright-prometheus-remote-write-reporter' package. You can set it by following example:\n\nimport { defineConfig } from '@playwright/test';\n\nexport default defineConfig({\n  // ...\n  reporter: [\n    ['playwright-prometheus-remote-write-reporter', {\n      serverUrl: 'http://localhost:9090/api/v1/write'\n    }]\n  ],\n  // ...\n});\n"]

Throw(error) == [t |-> "throw", error |-> error]

\* new URL(input).toString() on the inputs of the model: the serialised URL,
\* or the TypeError of the URL constructor.  An absent serverUrl reaches the
\* URL constructor as undefined, which does not parse.
URLtoString(o) ==
  IF ~Has(o, "serverUrl") THEN Throw(InvalidUrlError)
  ELSE CASE o.serverUrl = "http://x/write" -> JStr("http://x/write")
         [] o.serverUrl = "http://x" -> JStr("http://x/")
         [] OTHER -> Throw(InvalidUrlError)

\* x ?? y takes y when x is null or undefined
Nullish(x) == x.t \in {"null", "undefined"}

\* the older reporter: a missing serverUrl falls back to a local endpoint
ServerUrlDefaulted(o) ==
  IF Has(o, "serverUrl") /\ URLtoString(o).t # "throw" THEN URLtoString(o)
  ELSE JStr("http://localhost:9090/api/v1/write")

\* this.options.url = new URL(options.serverUrl).toString() ?? (() => { throw })()
ServerUrl(o) ==
  LET url == URLtoString(o)
  IN IF url.t = "throw" THEN url
     ELSE IF Nullish(url) THEN Throw(NotDefinedError)
     ELSE url

\* an env option that defaults to the whole of process.env
ReporterEnvFromProcess(o, penv) ==
  IF Has(o, "env") THEN o.env ELSE penv

\* this.env = options?.env ?? {}; penv is process.env, which the constructor
\* does not read
ReporterEnv(o, penv) ==
  IF Has(o, "env") THEN o.env ELSE EmptyLabels

\* the fields of a reporter whose constructor returned
NewReporter(o, penv) ==
  [options |-> [url |-> ServerUrl(o).v,
                headers |-> IF Has(o, "headers") THEN o.headers ELSE EmptyLabels,
                labels |-> IF Has(o, "labels") THEN o.labels ELSE EmptyLabels,
                auth |-> IF Has(o, "auth") THEN o.auth ELSE None],
   prefix |-> IF Has(o, "prefix") THEN o.prefix ELSE DEFAULT_PREFIX,
   metrics |-> FieldMetrics(ReporterEnv(o, penv))]

ReporterCall(o) == [ctor |-> "PrometheusReporter", args |-> o]

\* nothing has run yet
Idle ==
  /\ pw_projects = << >>
  /\ cpuDelta = None
  /\ memoryDelta = None
  /\ tasks = {}
  /\ pushes = << >>
  /\ hist = << >>
  /\ a = None
  /\ b = None
  /\ ops = << >>
  /\ stdout = << >>
  /\ evIn = None
  /\ evOut = FALSE

\* a reporter constructed with options that carry a valid serverUrl, under a
\* host of kind h
InitHost(h) ==
  /\ host = h
  /\ \E o \in ReporterOptions, penv \in ProcessEnvs :
       /\ processEnv = penv
       /\ prefix = NewReporter(o, penv).prefix
       /\ options = NewReporter(o, penv).options
       /\ metrics = NewReporter(o, penv).metrics
       /\ ctorCall = ReporterCall(o)
  /\ thrown = None
  /\ phase = "constructed"
  /\ Idle

\* the host waits for the promise of an async hook before the next hook
Init == InitHost("sequential")

\* the host does not wait for it
InitOverlap == InitHost("overlapping")

\* before `new PrometheusReporter(options)`
InitCtor ==
  /\ host = "sequential"
  /\ processEnv \in ProcessEnvs
  /\ prefix = None
  /\ options = None
  /\ metrics = None
  /\ ctorCall = None
  /\ thrown = None
  /\ phase = "new"
  /\ Idle

\* new PrometheusReporter(options): it throws what the serverUrl expression
\* throws, before any other field of the constructor body is assigned
Constructor(o) ==
  /\ phase = "new"
  /\ ctorCall' = ReporterCall(o)
  /\ IF ServerUrl(o).t = "throw"
     THEN /\ thrown' = ServerUrl(o).error
          /\ phase' = "threw"
          /\ UNCHANGED <<metrics, prefix, options>>
     ELSE /\ thrown' = None
          /\ phase' = "constructed"
          /\ prefix' = NewReporter(o, processEnv).prefix
          /\ options' = NewReporter(o, processEnv).options
          /\ metrics' = NewReporter(o, processEnv).metrics
  /\ UNCHANGED <<pw_projects, cpuDelta, memoryDelta, tasks, pushes, hist>>
  /\ UNCHANGED metricVars
  /\ UNCHANGED eventVars
  /\ UNCHANGED runVars

\* ------------------------------------------------------------------------
\* helpers.ts: the calls user code makes on a metric
\* ------------------------------------------------------------------------

\* metadata passed to the constructors
Metadatas ==
  { [name |-> "m"],
    [name |-> "api_requests", endpoint |-> "/users"] }

\* metadata without a name, or with an empty one
BadMetadatas ==
  { [endpoint |-> "/users"],
    [name |-> ""] }

\* the initialValue argument: left out, or 1
InitialArgs == {<< >>, <<1>>}

\* label maps passed to labels()
LabelMaps ==
  { [status |-> "success"],
    [endpoint |-> "/login"],
    [n \in {"__name__"} |-> "hijacked"],
    [name |-> "renamed", status |-> "failure"] }

Amounts == (0 - 1)..MaxAmount

MetricCall(kind, metadata, args) ==
  [ctor |-> kind, args |-> [metadata |-> metadata, initialValue |-> args]]

\* new Counter(metadata, initialValue) / new Gauge(metadata, initialValue):
\* the first metric constructor call of the user code
Construct(kind, metadata, args) ==
  /\ a = None
  /\ ctorCall.ctor = "PrometheusReporter"
  /\ ctorCall' = MetricCall(kind, metadata, args)
  /\ IF MetricCtorThrows(metadata)
     THEN /\ thrown' = NameRequiredError
          /\ UNCHANGED a
     ELSE /\ a' = NewMetric(kind, metadata, InitialValue(args))
          /\ UNCHANGED thrown
  /\ UNCHANGED <<b, ops, stdout>>
  /\ UNCHANGED reporterVars
  /\ UNCHANGED eventVars
  /\ UNCHANGED runVars

Callable == a # None /\ Len(ops) < MaxOps

Call(op, value, labels) == [op |-> op, value |-> value, labels |-> labels]

CallInc(value) ==
  /\ Callable
  /\ a' = Inc(a, value)
  /\ ops' = Append(ops, Call("inc", value, EmptyLabels))
  /\ UNCHANGED <<b, stdout>>
  /\ UNCHANGED reporterVars
  /\ UNCHANGED eventVars
  /\ UNCHANGED runVars
  /\ UNCHANGED ctorVars

CallDec(value) ==
  /\ Callable
  /\ a.kind = "Gauge"
  /\ a' = Dec(a, value)
  /\ ops' = Append(ops, Call("dec", value, EmptyLabels))
  /\ UNCHANGED <<b, stdout>>
  /\ UNCHANGED reporterVars
  /\ UNCHANGED eventVars
  /\ UNCHANGED runVars
  /\ UNCHANGED ctorVars

CallSet(value) ==
  /\ Callable
  /\ a.kind = "Gauge"
  /\ a' = Set(a, value)
  /\ ops' = Append(ops, Call("set", value, EmptyLabels))
  /\ UNCHANGED <<b, stdout>>
  /\ UNCHANGED reporterVars
  /\ UNCHANGED eventVars
  /\ UNCHANGED runVars
  /\ UNCHANGED ctorVars

CallZero ==
  /\ Callable
  /\ a.kind = "Gauge"
  /\ a' = Zero(a)
  /\ ops' = Append(ops, Call("zero", 0, EmptyLabels))
  /\ UNCHANGED <<b, stdout>>
  /\ UNCHANGED reporterVars
  /\ UNCHANGED eventVars
  /\ UNCHANGED runVars
  /\ UNCHANGED ctorVars

CallLabels(labels) ==
  /\ Callable
  /\ a' = Labels(a, labels)
  /\ ops' = Append(ops, Call("labels", 0, labels))
  /\ UNCHANGED <<b, stdout>>
  /\ UNCHANGED reporterVars
  /\ UNCHANGED eventVars
  /\ UNCHANGED runVars
  /\ UNCHANGED ctorVars

\* b = a.reset()
CallReset ==
  /\ Callable
  /\ a' = ResetThis(a)
  /\ b' = Reset(a)
  /\ ops' = Append(ops, Call("reset", 0, EmptyLabels))
  /\ UNCHANGED stdout
  /\ UNCHANGED reporterVars
  /\ UNCHANGED eventVars
  /\ UNCHANGED runVars
  /\ UNCHANGED ctorVars

CallableResult == b # None /\ Len(ops) < MaxOps

\* b.inc(value)
CallIncOnResult(value) ==
  /\ CallableResult
  /\ b' = Inc(b, value)
  /\ ops' = Append(ops, Call("result.inc", value, EmptyLabels))
  /\ UNCHANGED <<a, stdout>>
  /\ UNCHANGED reporterVars
  /\ UNCHANGED eventVars
  /\ UNCHANGED runVars
  /\ UNCHANGED ctorVars

\* b.labels(labels)
CallLabelsOnResult(labels) ==
  /\ CallableResult
  /\ b' = Labels(b, labels)
  /\ ops' = Append(ops, Call("result.labels", 0, labels))
  /\ UNCHANGED <<a, stdout>>
  /\ UNCHANGED reporterVars
  /\ UNCHANGED eventVars
  /\ UNCHANGED runVars
  /\ UNCHANGED ctorVars

\* b = b.reset()
CallResetOnResult ==
  /\ CallableResult
  /\ b' = Reset(b)
  /\ ops' = Append(ops, Call("result.reset", 0, EmptyLabels))
  /\ UNCHANGED <<a, stdout>>
  /\ UNCHANGED reporterVars
  /\ UNCHANGED eventVars
  /\ UNCHANGED runVars
  /\ UNCHANGED ctorVars

\* an Event that carries the first sample of the series only
NewEventFirstSample(series) ==
  [payload |-> [labels |-> series.labels, samples |-> SubSeq(series.samples, 1, 1)],
   name |-> EventName]

\* new Event(series): {payload, name}
NewEvent(series) == [payload |-> series, name |-> EventName]

\* Metric.collect: the Event of the series goes to process.stdout
CallCollect ==
  /\ Callable
  /\ stdout' = Append(stdout, JSONstringifyEvent(NewEvent(a.series)))
  /\ ops' = Append(ops, Call("collect", 0, EmptyLabels))
  /\ UNCHANGED <<a, b>>
  /\ UNCHANGED reporterVars
  /\ UNCHANGED eventVars
  /\ UNCHANGED runVars
  /\ UNCHANGED ctorVars

\* a scope exit that resets first and collects the instance reset() built
DisposeDocumentAfterReset(m) == JSONstringifyEvent(NewEvent(GetSeries(Reset(m))))

\* Metric[Symbol.dispose]: the document `this.collect()` writes
DisposeDocument(m) == JSONstringifyEvent(NewEvent(GetSeries(m)))

\* Metric[Symbol.dispose], run when a `using` binding of the metric leaves its
\* scope: this.collect(), then this.reset(), whose result is dropped
Dispose ==
  /\ a # None
  /\ Len(ops) + 2 <= MaxOps
  /\ stdout' = Append(stdout, DisposeDocument(a))
  /\ a' = ResetThis(a)
  /\ ops' = ops \o <<Call("dispose.collect", 0, EmptyLabels),
                      Call("dispose.reset", 0, EmptyLabels)>>
  /\ UNCHANGED b
  /\ UNCHANGED reporterVars
  /\ UNCHANGED eventVars
  /\ UNCHANGED runVars
  /\ UNCHANGED ctorVars

NextMetric ==
  \/ \E kind \in {"Counter", "Gauge"}, metadata \in Metadatas \cup BadMetadatas,
        args \in InitialArgs :
       Construct(kind, metadata, args)
  \/ \E v \in Amounts : CallInc(v)
  \/ \E v \in Amounts : CallDec(v)
  \/ \E v \in Amounts : CallSet(v)
  \/ CallZero
  \/ \E l \in LabelMaps : CallLabels(l)
  \/ CallReset
  \/ \E v \in Amounts : CallIncOnResult(v)
  \/ \E l \in LabelMaps : CallLabelsOnResult(l)
  \/ CallResetOnResult
  \/ CallCollect
  \/ Dispose

\* the user code runs beside a reporter of default options
InitMetric ==
  /\ Init
  /\ ctorCall = ReporterCall([serverUrl |-> "http://x/write"])
  /\ processEnv = [API_TOKEN |-> "t0k3n"]

\* user code working on one metric
SpecMetric == InitMetric /\ [][NextMetric]_vars

\* ------------------------------------------------------------------------
\* utils.ts: Event.is applied to JSON values
\* ------------------------------------------------------------------------

JTimeseries ==
  JObj([labels |-> JObj([n \in {"__name__"} |-> JStr("x")]),
        samples |-> JArr(<<JSample(1)>>)])

\* values of the `name` key and of the `payload` key; None: the key is absent
NameValues == {None, JStr(EventName), JStr("other"), JNum(5), JNull}
PayloadValues ==
  {None, JNull, JObj(EmptyLabels), JTimeseries, JNum(1), JStr("payload"),
   JStr(""), JArr(<< >>), JArr(<<JNum(1)>>), JObj([labels |-> JNull])}

EventObject(name, payload, extra) ==
  JObj([k \in ((IF name = None THEN {} ELSE {"name"})
                 \cup (IF payload = None THEN {} ELSE {"payload"})
                 \cup (IF extra THEN {"pid"} ELSE {})) |->
          IF k = "name" THEN name ELSE IF k = "payload" THEN payload ELSE JNum(7)])

EventInputs ==
  {JNull, JNum(123), JStr(EventName), JArr(<< >>), JArr(<<JStr(EventName)>>)}
    \cup {EventObject(n, p, e) : n \in NameValues, p \in PayloadValues,
                                 e \in BOOLEAN}

CheckEvent(input) ==
  /\ evIn' = input
  /\ evOut' = EventIs(input)
  /\ UNCHANGED reporterVars
  /\ UNCHANGED metricVars
  /\ UNCHANGED runVars
  /\ UNCHANGED ctorVars

NextEvent == \E input \in EventInputs : CheckEvent(input)

\* Event.is on every input of the model
SpecEvent == Init /\ [][NextEvent]_vars

\* ------------------------------------------------------------------------
\* index.ts: the hooks of PrometheusReporter
\* ------------------------------------------------------------------------

\* hook invocations of the running phase in one run
MaxHooks == 2

\* the hooks of one reporter are called one after the other.  A host that
\* waits for the promise an async hook returned starts a hook when no earlier
\* invocation is suspended; a host that drops the promise starts it at once.
HostMayCall == host = "overlapping" \/ tasks = {}

\* hist[1] is onBegin
MayRun == phase = "running" /\ HostMayCall /\ Len(hist) <= MaxHooks

NextId == Len(hist) + 1

Invocation(hook, args, status) == [hook |-> hook, args |-> args, status |-> status]

Task(id, hook, pc, labels) == [id |-> id, hook |-> hook, pc |-> pc, labels |-> labels]

\* a call of pushTimeseries(series, options) by invocation id; `single` tells
\* a lone Timeseries from an array
Push(id, series, single) ==
  [id |-> id, series |-> series, single |-> single, outcome |-> "pending"]

\* the promise of the pending push of invocation id settles
Settled(id, outcome) ==
  [i \in 1..Len(pushes) |->
     IF pushes[i].id = id /\ pushes[i].outcome = "pending"
     THEN [pushes[i] EXCEPT !.outcome = outcome] ELSE pushes[i]]

Refresh(ms, r) ==
  /\ metrics' = UpdateNodejsStats(ms, r)
  /\ cpuDelta' = r.cpu
  /\ memoryDelta' = r.mem

\* onBegin: the labels of pw_config
ConfigLabels(config) ==
  [workers |-> ToStr(config.workers),
   forbidOnly |-> BoolStr(config.forbidOnly),
   configFile |-> IF Has(config, "configFile") THEN config.configFile ELSE "",
   fullyParallel |-> BoolStr(config.fullyParallel),
   preserveOutput |-> config.preserveOutput,
   quiet |-> BoolStr(config.quiet),
   updateSnapshots |-> config.updateSnapshots,
   version |-> config.version,
   shard_current |-> IF Has(config, "shard") THEN ToStr(config.shard.current)
                     ELSE ToStr(1),
   shard_total |-> IF Has(config, "shard") THEN ToStr(config.shard.total)
                   ELSE ToStr(1)]

\* onBegin: the Counter of one project
ProjectMetric(project) ==
  NewCounter([name |-> "project",
              projectName |-> project.name,
              outputDir |-> project.outputDir,
              repeatEach |-> ToStr(project.repeatEach),
              snapshotDir |-> project.snapshotDir,
              testDir |-> project.testDir,
              timeout |-> ToStr(project.timeout),
              unit |-> "ms"], 1)

OnBegin(config, r) ==
  /\ phase = "constructed"
  /\ Refresh([metrics EXCEPT !.pw_config = Labels(@, ConfigLabels(config))], r)
  /\ pw_projects' = [i \in 1..Len(config.projects) |->
                       ProjectMetric(config.projects[i])]
  /\ phase' = "running"
  /\ hist' = Append(hist, Invocation("onBegin", config, "returned"))
  /\ UNCHANGED <<prefix, options, tasks, pushes>>
  /\ UNCHANGED metricVars
  /\ UNCHANGED eventVars
  /\ UNCHANGED runVars
  /\ UNCHANGED ctorVars

\* onTestBegin, onStepBegin: updateNodejsStats and nothing else
OnTestBegin(r) ==
  /\ MayRun
  /\ Refresh(metrics, r)
  /\ hist' = Append(hist, Invocation("onTestBegin", None, "returned"))
  /\ UNCHANGED <<pw_projects, prefix, options, phase, tasks, pushes>>
  /\ UNCHANGED metricVars
  /\ UNCHANGED eventVars
  /\ UNCHANGED runVars
  /\ UNCHANGED ctorVars

OnStepBegin(r) ==
  /\ MayRun
  /\ Refresh(metrics, r)
  /\ hist' = Append(hist, Invocation("onStepBegin", None, "returned"))
  /\ UNCHANGED <<pw_projects, prefix, options, phase, tasks, pushes>>
  /\ UNCHANGED metricVars
  /\ UNCHANGED eventVars
  /\ UNCHANGED runVars
  /\ UNCHANGED ctorVars

\* onEnd: updateNodejsStats; the host then goes on to onExit
OnEnd(r) ==
  /\ phase = "running"
  /\ HostMayCall
  /\ Refresh(metrics, r)
  /\ phase' = "ended"
  /\ hist' = Append(hist, Invocation("onEnd", None, "returned"))
  /\ UNCHANGED <<pw_projects, prefix, options, tasks, pushes>>
  /\ UNCHANGED metricVars
  /\ UNCHANGED eventVars
  /\ UNCHANGED runVars
  /\ UNCHANGED ctorVars

\* step updates that count every step as a step with an error
StepUpdatesErrorOfEveryStep(ms, test, result, step) ==
  LET labels == StepLabels(test, result, step)
  IN [ms EXCEPT !.test_step_total_error = Inc(Labels(@, labels), 1),
                !.test_step_error_count = Inc(Labels(@, labels), 1),
                !.test_step_total_duration =
                   Inc(Labels(Inc(@, step.duration),
                              [testId |-> test.id, testTitle |-> test.title]),
                       step.duration),
                !.test_step_total_count = Inc(@, 1),
                !.test_step_duration = Inc(Labels(@, labels), step.duration),
                !.test_step = Labels(@, labels)]

\* onStepEnd: the metric updates before updateNodejsStats
StepUpdates(ms, test, result, step) ==
  LET labels == StepLabels(test, result, step)
      ms1 == IF Has(step, "error")
             THEN [ms EXCEPT !.test_step_total_error = Inc(Labels(@, labels), 1),
                             !.test_step_error_count = Inc(Labels(@, labels), 1)]
             ELSE ms
      ms2 == [ms1 EXCEPT !.test_step_total_duration = Inc(@, step.duration),
                         !.test_step_total_count = Inc(@, 1),
                         !.test_step_duration = Inc(Labels(@, labels), step.duration),
                         !.test_step = Labels(@, labels)]
  IN [ms2 EXCEPT !.test_step_total_duration =
                    Inc(Labels(@, [testId |-> test.id, testTitle |-> test.title]),
                        step.duration)]

\* a step batch without the error counter of the step
StepBatchWithoutErrorCount(ms) ==
  <<MapMetric(prefix, ms.test_step_duration),
    MapMetric(prefix, ms.test_step)>>

\* onStepEnd: the batch it sends
StepBatch(ms) ==
  <<MapMetric(prefix, ms.test_step_duration),
    MapMetric(prefix, ms.test_step_error_count),
    MapMetric(prefix, ms.test_step)>>

\* onStepEnd up to `await this.send(...)`
OnStepEnd(test, result, step, r) ==
  /\ MayRun
  /\ LET ms == StepUpdates(metrics, test, result, step)
     IN /\ Refresh(ms, r)
        /\ pushes' = Append(pushes, Push(NextId, StepBatch(metrics'), FALSE))
  /\ tasks' = tasks \cup {Task(NextId, "onStepEnd", "send", EmptyLabels)}
  /\ hist' = Append(hist, Invocation("onStepEnd",
                                     [test |-> test, result |-> result, step |-> step],
                                     "pending"))
  /\ UNCHANGED <<pw_projects, prefix, options, phase>>
  /\ UNCHANGED metricVars
  /\ UNCHANGED eventVars
  /\ UNCHANGED runVars
  /\ UNCHANGED ctorVars

\* onStepEnd after the push resolved: `this.test_step.reset()` builds a new
\* Counter that is dropped, this.test_step keeps the instance it held
OnStepEndResume(t) ==
  /\ t \in tasks
  /\ t.hook = "onStepEnd"
  /\ pushes' = Settled(t.id, "resolved")
  /\ tasks' = tasks \ {t}
  /\ hist' = [hist EXCEPT ![t.id].status = "resolved"]
  /\ UNCHANGED <<metrics, pw_projects, prefix, options, cpuDelta, memoryDelta, phase>>
  /\ UNCHANGED metricVars
  /\ UNCHANGED eventVars
  /\ UNCHANGED runVars
  /\ UNCHANGED ctorVars

\* onTestEnd: the metric updates before the push
TestUpdates(ms, test, result) ==
  LET labels == TestLabels(test, result)
      ms1 == UpdateResults(ms, result)
      ms2 == ForEachAttachment(ms1, test, result.attachments)
      ms3 == ForEachAnnotation(ms2, test, test.annotations)
  IN [ms3 EXCEPT !.test = Inc(Labels(@, labels), 1),
                 !.test_duration = Set(Labels(@, labels), result.duration),
                 !.test_retry_count = Inc(Labels(@, labels), result.retry)]

\* onTestEnd: the batch it sends
TestBatch(ms) ==
  <<MapMetric(prefix, ms.test_step),
    MapMetric(prefix, ms.test_step_total_duration),
    MapMetric(prefix, ms.test_attachment_size),
    MapMetric(prefix, ms.test_annotation_count),
    MapMetric(prefix, ms.test),
    MapMetric(prefix, ms.test_duration),
    MapMetric(prefix, ms.test_retry_count),
    MapMetric(prefix, ms.test_step_total_error),
    MapMetric(prefix, ms.test_attachment_size),
    MapMetric(prefix, ms.test_step_total_count)>>

\* onTestEnd up to `await this.send(...)`
OnTestEnd(test, result) ==
  /\ MayRun
  /\ metrics' = TestUpdates(metrics, test, result)
  /\ pushes' = Append(pushes, Push(NextId, TestBatch(metrics'), FALSE))
  /\ tasks' = tasks \cup {Task(NextId, "onTestEnd", "send", EmptyLabels)}
  /\ hist' = Append(hist, Invocation("onTestEnd",
                                     [test |-> test, result |-> result], "pending"))
  /\ UNCHANGED <<pw_projects, prefix, options, cpuDelta, memoryDelta, phase>>
  /\ UNCHANGED metricVars
  /\ UNCHANGED eventVars
  /\ UNCHANGED runVars
  /\ UNCHANGED ctorVars

\* resets whose results are all dropped: every field keeps its instance
TestResetsDropped(ms) == ms

\* onTestEnd: the resets after the push.  The results of
\* this.test_annotation_count.reset() and this.test_attachment_size.reset()
\* are dropped: those two fields keep the instance they held.
TestResets(ms) ==
  [ms EXCEPT !.test_step = Reset(@),
             !.test = Reset(@),
             !.test_duration = Reset(@),
             !.test_retry_count = Reset(@)]

\* onTestEnd after the push resolved
OnTestEndResume(t, r) ==
  /\ t \in tasks
  /\ t.hook = "onTestEnd"
  /\ pushes' = Settled(t.id, "resolved")
  /\ Refresh(TestResets(metrics), r)
  /\ tasks' = tasks \ {t}
  /\ hist' = [hist EXCEPT ![t.id].status = "resolved"]
  /\ UNCHANGED <<pw_projects, prefix, options, phase>>
  /\ UNCHANGED metricVars
  /\ UNCHANGED eventVars
  /\ UNCHANGED runVars
  /\ UNCHANGED ctorVars

\* `await this.send(...)` of onStepEnd, onTestEnd or onExit rejects: no
\* try/catch is around it, the promise of the hook rejects and the rest of
\* the hook is skipped
SendRejects(t) ==
  /\ t \in tasks
  /\ t.hook \in {"onStepEnd", "onTestEnd", "onExit"}
  /\ pushes' = Settled(t.id, "rejected")
  /\ tasks' = tasks \ {t}
  /\ hist' = [hist EXCEPT ![t.id].status = "rejected"]
  /\ phase' = IF t.hook = "onExit" THEN "exited" ELSE phase
  /\ UNCHANGED <<metrics, pw_projects, prefix, options, cpuDelta, memoryDelta>>
  /\ UNCHANGED metricVars
  /\ UNCHANGED eventVars
  /\ UNCHANGED runVars
  /\ UNCHANGED ctorVars

\* onError
ErrorLabels(error) ==
  [path |-> Location(error),
   message |-> IF Has(error, "message") THEN error.message ELSE "",
   snippet |-> IF Has(error, "snippet") THEN error.snippet ELSE "",
   value |-> IF Has(error, "value") THEN error.value ELSE ""]

OnError(error, r) ==
  /\ MayRun
  /\ Refresh([metrics EXCEPT !.errors_count = Inc(Labels(@, ErrorLabels(error)), 1),
                             !.test_errors = Inc(@, 1)], r)
  /\ hist' = Append(hist, Invocation("onError", error, "returned"))
  /\ UNCHANGED <<pw_projects, prefix, options, phase, tasks, pushes>>
  /\ UNCHANGED metricVars
  /\ UNCHANGED eventVars
  /\ UNCHANGED runVars
  /\ UNCHANGED ctorVars

\* the (chunk, test) pairs the host passes to onStdOut and to onStdErr;
\* None: the chunk was written outside of a test
StdOutputs ==
  {<<chunk, None>> : chunk \in Chunks \ {ChunkSpaced}}
    \cup {<<ChunkEvent, TestA>>}
ErrOutputs ==
  {<<ChunkPlain, None>>, <<ChunkSpaced, None>>, <<ChunkNumber, None>>,
   <<ChunkPlain, TestA>>}

\* onStdOut, onStdErr: the labels of a chunk
ChunkLabels(chunk, test) ==
  [text |-> chunk,
   size |-> ToStr(Len(chunk)),
   unit |-> "bytes",
   encoding |-> "utf8",
   testId |-> IF test = None THEN "" ELSE test.id,
   testTitle |-> IF test = None THEN "" ELSE test.title]

\* onStdOut: pw_stdout.labels({ internal, ...labels }).inc()
CountStdout(ms, internal, labels) ==
  [ms EXCEPT !.pw_stdout =
     Inc(Labels(@, Spread([internal |-> internal], labels)), 1)]

\* onStdOut up to `await this.send(timeseries)`, or to its end when it does
\* not get there: JSON.parse throws (catch), the value is no Event (nothing
\* is counted), or mapTimeseries throws on the payload (catch).  event is
\* what JSON.parse makes of the chunk.
StdOut(chunk, event, test, r) ==
  /\ MayRun
  /\ LET labels == ChunkLabels(chunk, test)
         args == [chunk |-> chunk, test |-> test]
     IN IF event.t = "SyntaxError"
        THEN /\ Refresh(CountStdout(metrics, "false", labels), r)
             /\ hist' = Append(hist, Invocation("onStdOut", args, "resolved"))
             /\ UNCHANGED <<tasks, pushes>>
        ELSE IF ~EventIs(event)
        THEN /\ Refresh(metrics, r)
             /\ hist' = Append(hist, Invocation("onStdOut", args, "resolved"))
             /\ UNCHANGED <<tasks, pushes>>
        ELSE IF MapPayloadThrows(event.o["payload"])
        THEN /\ Refresh(CountStdout(metrics, "false", labels), r)
             /\ hist' = Append(hist, Invocation("onStdOut", args, "resolved"))
             /\ UNCHANGED <<tasks, pushes>>
        ELSE /\ pushes' = Append(pushes,
                                 Push(NextId,
                                      <<MapPayload(prefix, event.o["payload"])>>,
                                      TRUE))
             /\ tasks' = tasks \cup {Task(NextId, "onStdOut", "send", labels)}
             /\ hist' = Append(hist, Invocation("onStdOut", args, "pending"))
             /\ UNCHANGED <<metrics, cpuDelta, memoryDelta>>
  /\ UNCHANGED <<pw_projects, prefix, options, phase>>
  /\ UNCHANGED metricVars
  /\ UNCHANGED eventVars
  /\ UNCHANGED runVars
  /\ UNCHANGED ctorVars

\* onStdOut on a chunk of the output of the run
OnStdOut(chunk, test, r) == StdOut(chunk, JSONparse(chunk), test, r)

\* the documents of process.stdout the host has handed to onStdOut
Delivered == Cardinality({i \in 1..Len(hist) : hist[i].hook = "onStdOut"})

\* onStdOut on the next document collect() wrote, handed over as one chunk
OnStdOutDocument(r) ==
  /\ Delivered < Len(stdout)
  /\ StdOut(stdout[Delivered + 1].text, stdout[Delivered + 1].json, TestA, r)

\* onStdOut after the push resolved
OnStdOutResume(t, r) ==
  /\ t \in tasks
  /\ t.hook = "onStdOut"
  /\ pushes' = Settled(t.id, "resolved")
  /\ Refresh(CountStdout(metrics, "true", t.labels), r)
  /\ tasks' = tasks \ {t}
  /\ hist' = [hist EXCEPT ![t.id].status = "resolved"]
  /\ UNCHANGED <<pw_projects, prefix, options, phase>>
  /\ UNCHANGED metricVars
  /\ UNCHANGED eventVars
  /\ UNCHANGED runVars
  /\ UNCHANGED ctorVars

\* onStdOut after the push rejected: the await is inside the try block, the
\* catch block takes the rejection and the hook goes on
OnStdOutCatch(t, r) ==
  /\ t \in tasks
  /\ t.hook = "onStdOut"
  /\ pushes' = Settled(t.id, "rejected")
  /\ Refresh(CountStdout(metrics, "false", t.labels), r)
  /\ tasks' = tasks \ {t}
  /\ hist' = [hist EXCEPT ![t.id].status = "resolved"]
  /\ UNCHANGED <<pw_projects, prefix, options, phase>>
  /\ UNCHANGED metricVars
  /\ UNCHANGED eventVars
  /\ UNCHANGED runVars
  /\ UNCHANGED ctorVars

\* an onStdErr that labels every chunk with its raw text
OnStdErrRawText(chunk, test, r) ==
  /\ MayRun
  /\ Refresh([metrics EXCEPT !.pw_stderr = Inc(Labels(@, ChunkLabels(chunk, test)), 1)], r)
  /\ hist' = Append(hist, Invocation("onStdErr", [chunk |-> chunk, test |-> test],
                                     "returned"))
  /\ UNCHANGED <<pw_projects, prefix, options, phase, tasks, pushes>>
  /\ UNCHANGED metricVars
  /\ UNCHANGED eventVars
  /\ UNCHANGED runVars
  /\ UNCHANGED ctorVars

\* onStdErr
OnStdErr(chunk, test, r) ==
  /\ MayRun
  /\ LET labels == ChunkLabels(chunk, test)
         parsed == JSONparse(labels.text)
         counted ==
           IF parsed.t = "SyntaxError"
           THEN [metrics EXCEPT !.pw_stderr = Inc(Labels(@, labels), 1)]
           ELSE [metrics EXCEPT !.pw_stderr =
                   Inc(Labels(@, Spread(labels,
                                        [json |-> "true",
                                         text |-> JSONstringify(parsed)])), 1)]
     IN Refresh(counted, r)
  /\ hist' = Append(hist, Invocation("onStdErr", [chunk |-> chunk, test |-> test],
                                     "returned"))
  /\ UNCHANGED <<pw_projects, prefix, options, phase, tasks, pushes>>
  /\ UNCHANGED metricVars
  /\ UNCHANGED eventVars
  /\ UNCHANGED runVars
  /\ UNCHANGED ctorVars

\* PrometheusReporter.timeseries: never written after its initialiser
timeseries == << >>

\* onExit: the batch of the run-level metrics
ExitBatch(ms, projects) ==
  <<MapMetric(prefix, ms.pw_config),
    MapMetric(prefix, ms.pw_stdout),
    MapMetric(prefix, ms.pw_stderr),
    MapMetric(prefix, ms.failed_count),
    MapMetric(prefix, ms.passed_count),
    MapMetric(prefix, ms.skipped_tests_count),
    MapMetric(prefix, ms.timed_out_tests_count),
    MapMetric(prefix, ms.test_total_count),
    MapMetric(prefix, ms.total_duration),
    MapMetric(prefix, ms.tests_total_attachment),
    MapMetric(prefix, ms.test_step_total_count),
    MapMetric(prefix, ms.tests_total_attachment_size),
    MapMetric(prefix, ms.test_step_total_duration),
    MapMetric(prefix, ms.test_step_total_error)>>
    \o [i \in 1..Len(projects) |-> MapMetric(prefix, projects[i])]

\* sendNodejsStats: the batch it sends
NodejsStatsBatch(ms) ==
  <<MapMetric(prefix, ms.node_cpu_user),
    MapMetric(prefix, ms.node_cpu_system),
    MapMetric(prefix, ms.node_memory_array_buffers),
    MapMetric(prefix, ms.node_memory_external),
    MapMetric(prefix, ms.node_memory_heap_total),
    MapMetric(prefix, ms.node_memory_heap_used),
    MapMetric(prefix, ms.node_memory_rss),
    MapMetric(prefix, ms.node_os),
    MapMetric(prefix, ms.node_env),
    MapMetric(prefix, ms.node_argv),
    MapMetric(prefix, ms.node_versions)>>

\* onExit up to `await this.send(this.timeseries)`
OnExit ==
  /\ phase = "ended"
  /\ HostMayCall
  /\ hist[Len(hist)].hook = "onEnd"
  /\ pushes' = Append(pushes, Push(NextId, timeseries, FALSE))
  /\ tasks' = tasks \cup {Task(NextId, "onExit", "timeseries", EmptyLabels)}
  /\ hist' = Append(hist, Invocation("onExit", None, "pending"))
  /\ UNCHANGED <<metrics, pw_projects, prefix, options, cpuDelta, memoryDelta, phase>>
  /\ UNCHANGED metricVars
  /\ UNCHANGED eventVars
  /\ UNCHANGED runVars
  /\ UNCHANGED ctorVars

\* onExit from the first push resolved to the await of the second
OnExitSendMetrics(t) ==
  /\ t \in tasks
  /\ t.hook = "onExit"
  /\ t.pc = "timeseries"
  /\ pushes' = Append(Settled(t.id, "resolved"),
                      Push(t.id, ExitBatch(metrics, pw_projects), FALSE))
  /\ tasks' = (tasks \ {t}) \cup {Task(t.id, "onExit", "metrics", EmptyLabels)}
  /\ UNCHANGED <<metrics, pw_projects, prefix, options, cpuDelta, memoryDelta, phase, hist>>
  /\ UNCHANGED metricVars
  /\ UNCHANGED eventVars
  /\ UNCHANGED runVars
  /\ UNCHANGED ctorVars

\* onExit from the second push resolved to the await in sendNodejsStats
OnExitSendNodejsStats(t, r) ==
  /\ t \in tasks
  /\ t.hook = "onExit"
  /\ t.pc = "metrics"
  /\ Refresh(metrics, r)
  /\ pushes' = Append(Settled(t.id, "resolved"),
                      Push(t.id, NodejsStatsBatch(metrics'), FALSE))
  /\ tasks' = (tasks \ {t}) \cup {Task(t.id, "onExit", "nodejsStats", EmptyLabels)}
  /\ UNCHANGED <<pw_projects, prefix, options, phase, hist>>
  /\ UNCHANGED metricVars
  /\ UNCHANGED eventVars
  /\ UNCHANGED runVars
  /\ UNCHANGED ctorVars

\* onExit after the last push resolved
OnExitDone(t) ==
  /\ t \in tasks
  /\ t.hook = "onExit"
  /\ t.pc = "nodejsStats"
  /\ pushes' = Settled(t.id, "resolved")
  /\ tasks' = tasks \ {t}
  /\ hist' = [hist EXCEPT ![t.id].status = "resolved"]
  /\ phase' = "exited"
  /\ UNCHANGED <<metrics, pw_projects, prefix, options, cpuDelta, memoryDelta>>
  /\ UNCHANGED metricVars
  /\ UNCHANGED eventVars
  /\ UNCHANGED runVars
  /\ UNCHANGED ctorVars

Next ==
  \/ \E r \in Readings : OnBegin(Config, r)
  \/ \E r \in Readings : OnTestBegin(r)
  \/ \E r \in Readings : OnStepBegin(r)
  \/ \E s \in StepEnds, r \in Readings : OnStepEnd(s[1], s[2], s[3], r)
  \/ \E t \in tasks : OnStepEndResume(t)
  \/ \E e \in TestEnds : OnTestEnd(e[1], e[2])
  \/ \E t \in tasks, r \in Readings : OnTestEndResume(t, r)
  \/ \E t \in tasks : SendRejects(t)
  \/ \E e \in TestErrors, r \in Readings : OnError(e, r)
  \/ \E o \in StdOutputs, r \in Readings : OnStdOut(o[1], o[2], r)
  \/ \E t \in tasks, r \in Readings : OnStdOutResume(t, r)
  \/ \E t \in tasks, r \in Readings : OnStdOutCatch(t, r)
  \/ \E o \in ErrOutputs, r \in Readings : OnStdErr(o[1], o[2], r)
  \/ \E r \in Readings : OnEnd(r)
  \/ OnExit
  \/ \E t \in tasks : OnExitSendMetrics(t)
  \/ \E t \in tasks, r \in Readings : OnExitSendNodejsStats(t, r)
  \/ \E t \in tasks : OnExitDone(t)

\* one run of the reporter under a host that waits for async hooks
Spec == Init /\ [][Next]_vars

\* one run under a host that does not wait for them
SpecOverlap == InitOverlap /\ [][Next]_vars

NextCtor ==
  \/ \E o \in CtorOptions : Constructor(o)
  \/ Next

\* construction and the run that follows it
SpecCtor == InitCtor /\ [][NextCtor]_vars

\* ------------------------------------------------------------------------
\* fixture.ts: metrics of a test, collected through process.stdout
\* ------------------------------------------------------------------------

\* the (class, name, labels) of the fixture calls; no labels: the empty map
FixtureUses ==
  { <<"Counter", "api_requests", [endpoint |-> "/users"]>>,
    <<"Gauge", "active_users", [region |-> "us-east"]>>,
    <<"Counter", "m", EmptyLabels>> }

\* useCounterMetric(name, labels) / useGaugeMetric(name, labels):
\* new Counter({ name, ...labels }) / new Gauge({ name, ...labels })
UseMetric(kind, name, labels) ==
  Construct(kind, Spread(Name(name), labels), << >>)

NextCollect ==
  \/ \E u \in FixtureUses : UseMetric(u[1], u[2], u[3])
  \/ \E v \in Amounts : CallInc(v)
  \/ \E v \in Amounts : CallSet(v)
  \/ \E l \in LabelMaps : CallLabels(l)
  \/ CallCollect
  \/ \E r \in Readings : OnBegin(Config, r)
  \/ \E r \in Readings : OnStdOutDocument(r)
  \/ \E t \in tasks, r \in Readings : OnStdOutResume(t, r)
  \/ \E t \in tasks, r \in Readings : OnStdOutCatch(t, r)

\* a test that uses a fixture metric, beside the reporter of the run
SpecCollect == InitMetric /\ [][NextCollect]_vars

\* fixture calls whose labels have a key `name` or `__name__`
FixtureUsesNamed ==
  { <<"Counter", "api_requests", [name |-> "renamed"]>>,
    <<"Gauge", "active_users", [n \in {"__name__"} |-> "hijacked"]>> }

\* useCounterMetric(name, labels) / useGaugeMetric(name, labels), the call
\* kept with its two arguments
UseFixture(kind, name, labels) ==
  /\ a = None
  /\ ctorCall.ctor = "PrometheusReporter"
  /\ LET metadata == Spread(Name(name), labels)
     IN /\ ctorCall' = [ctor |-> kind,
                        args |-> [metadata |-> metadata, initialValue |-> << >>],
                        fixture |-> [name |-> name, labels |-> labels]]
        /\ IF MetricCtorThrows(metadata)
           THEN /\ thrown' = NameRequiredError
                /\ UNCHANGED a
           ELSE /\ a' = NewMetric(kind, metadata, InitialValue(<< >>))
                /\ UNCHANGED thrown
  /\ UNCHANGED <<b, ops, stdout>>
  /\ UNCHANGED reporterVars
  /\ UNCHANGED eventVars
  /\ UNCHANGED runVars

\* documents the host hands to onStdOut in one chunk
MaxDocuments == 2

\* the number of bytes of a sequence of texts
RECURSIVE Bytes(_)
Bytes(texts) ==
  IF Len(texts) = 0 THEN 0 ELSE Len(Head(texts)) + Bytes(Tail(texts))

\* the texts collect() wrote to process.stdout, and the chunks the host has
\* handed to onStdOut
WrittenTexts == [i \in 1..Len(stdout) |-> stdout[i].text]
HandedChunks ==
  LET calls == SelectSeq(hist, LAMBDA h : h.hook = "onStdOut")
  IN [i \in 1..Len(calls) |-> calls[i].args.chunk]

\* the documents of process.stdout the host has handed over, whole
DeliveredDocuments ==
  CHOOSE d \in 0..Len(stdout) :
    Bytes(SubSeq(WrittenTexts, 1, d)) = Bytes(HandedChunks)

\* the bytes of documents written one after the other: collect() writes no
\* delimiter between them
RECURSIVE Concat(_)
Concat(docs) ==
  IF Len(docs) = 0 THEN "" ELSE Head(docs).text \o Concat(Tail(docs))

\* JSON.parse on the bytes of these documents: one document parses to its
\* value; text after the end of the first JSON value is a SyntaxError
JSONparseDocuments(docs) ==
  IF Len(docs) = 1 THEN docs[1].json ELSE SyntaxError

\* onStdOut on a chunk that holds the next n documents collect() wrote
OnStdOutChunk(n, r) ==
  /\ DeliveredDocuments + n <= Len(stdout)
  /\ LET docs == SubSeq(stdout, DeliveredDocuments + 1, DeliveredDocuments + n)
     IN StdOut(Concat(docs), JSONparseDocuments(docs), TestA, r)

NextFixture ==
  \/ \E u \in FixtureUses \cup FixtureUsesNamed : UseFixture(u[1], u[2], u[3])
  \/ \E v \in Amounts : CallInc(v)
  \/ \E l \in LabelMaps : CallLabels(l)
  \/ CallCollect
  \/ \E r \in Readings : OnBegin(Config, r)
  \/ \E n \in 1..MaxDocuments, r \in Readings : OnStdOutChunk(n, r)
  \/ \E t \in tasks, r \in Readings : OnStdOutResume(t, r)
  \/ \E t \in tasks, r \in Readings : OnStdOutCatch(t, r)

\* a test that uses a fixture metric, under a host that hands the bytes of
\* process.stdout to the reporter in chunks of its own choice
SpecFixture == InitMetric /\ [][NextFixture]_vars

\* ------------------------------------------------------------------------
\* Properties of Counter and Gauge (SpecMetric)
\* ------------------------------------------------------------------------

Last(seq) == seq[Len(seq)]

IsMutating(op) == op.op \in {"inc", "dec", "set", "zero"}

\* the value a call leaves, by the documented meaning of the call
ApplyCall(v, op) ==
  CASE op.op = "inc" -> v + op.value
    [] op.op = "dec" -> v - op.value
    [] op.op = "set" -> op.value
    [] op.op = "zero" -> 0
    [] OTHER -> v

RECURSIVE FoldCalls(_, _)
FoldCalls(v, calls) ==
  IF Len(calls) = 0 THEN v
  ELSE FoldCalls(ApplyCall(v, Head(calls)), Tail(calls))

\* C1: a metric constructed with initial value v0 has 1 + (number of inc,
\* dec, set, zero calls) samples, the first is v0, the k-th appended sample
\* is the value after the k-th such call, and the value is the fold of the
\* calls in call order from v0; labels() and collect() append no sample.
C1_SamplesFollowCalls ==
  a # None =>
    LET mutating == SelectSeq(ops, IsMutating)
    IN /\ Len(a.series.samples) = 1 + Len(mutating)
       /\ a.series.samples[1] = a.initialValue
       /\ \A k \in 1..Len(mutating) :
            a.series.samples[k + 1] =
              FoldCalls(a.initialValue, SubSeq(mutating, 1, k))
       /\ a.counter = FoldCalls(a.initialValue, ops)

\* a Gauge that was decremented, set and then labelled
C1_Witness ==
  /\ a # None
  /\ a.kind = "Gauge"
  /\ Len(ops) = 3
  /\ ops[1].op = "dec" /\ ops[1].value = 2
  /\ ops[2].op = "set"
  /\ ops[3].op \in {"labels", "collect"}
  /\ Len(a.series.samples) = 3

IsLabelsCall(l) ==
  /\ a # None
  /\ ops' = Append(ops, [op |-> "labels", value |-> 0, labels |-> l])

IsCall(op) == Len(ops') = Len(ops) + 1 /\ Last(ops').op = op

ConstructionLabels(metadata) ==
  [k \in {"__name__"} \cup (DOMAIN metadata \ {"name"}) |->
     IF k = "__name__" THEN metadata["name"] ELSE metadata[k]]

\* the initial value the constructor call of `a` asked for
AskedInitialValue ==
  IF ctorCall.args.initialValue = << >> THEN 0
  ELSE ctorCall.args.initialValue[1]

\* m is as the constructor call of `a` left `a`
AsConstructed(m) ==
  /\ m.kind = ctorCall.ctor
  /\ m.counter = AskedInitialValue
  /\ m.series.samples = <<AskedInitialValue>>
  /\ m.series.labels = ConstructionLabels(ctorCall.args.metadata)

\* C16: for every metric `a` user code can reach, a.reset() and
\* a.reset().reset() are as the constructor left `a`: same class, the
\* initial value, one sample holding it, the labels of the metadata only;
\* and so is the instance a reset call has just returned.
C16_ResetIsFresh ==
  /\ a # None
       => /\ AsConstructed(Reset(a))
          /\ AsConstructed(Reset(Reset(a)))
  /\ (ops # << >> /\ Last(ops).op \in {"reset", "result.reset"})
       => AsConstructed(b)

\* a Gauge that got a label and a value and was then reset
C16_Witness ==
  /\ a # None
  /\ a.kind = "Gauge"
  /\ Len(ops) = 3
  /\ ops[1].op = "labels"
  /\ ops[2].op = "set"
  /\ ops[3].op = "reset"
  /\ b.kind = "Gauge"
  /\ b.series.labels # a.series.labels
  /\ Len(a.series.samples) = 2

MetricConstructorCalled == ctorCall.ctor \in {"Counter", "Gauge"}

\* C19: a Counter or Gauge constructor call whose metadata has no name, or
\* an empty one, throws the error "name property for metadata is required"
\* and leaves no metric; with a name it returns a metric whose value is the
\* initialValue argument (0 when left out) and whose only sample holds it.
C19_NameRequired ==
  MetricConstructorCalled
  => LET metadata == ctorCall.args.metadata
     IN IF ~Has(metadata, "name") \/ metadata["name"] = ""
        THEN /\ thrown # None
             /\ thrown.name = "Error"
             /\ thrown.message = "\"name\" property for metadata is required"
             /\ a = None
        ELSE /\ thrown = None
             /\ a # None
             /\ ops = << >>
                  => /\ a.counter = AskedInitialValue
                     /\ a.series.samples = <<AskedInitialValue>>

\* new Gauge({ name: "" }) threw
C19_Witness ==
  /\ MetricConstructorCalled
  /\ ctorCall.ctor = "Gauge"
  /\ ctorCall.args.metadata = [name |-> ""]
  /\ thrown # None
  /\ a = None

\* the labels a sequence of calls leaves, by the documented meaning of labels()
RECURSIVE LabelsAfter(_, _)
LabelsAfter(labels, calls) ==
  IF Len(calls) = 0 THEN labels
  ELSE LabelsAfter(IF Head(calls).op = "labels"
                   THEN Spread(labels, Head(calls).labels) ELSE labels,
                   Tail(calls))

\* C22, the state: the label set of a metric is the construction labels
\* overridden, left to right, by the maps of the labels() calls made on it.
C22_LabelsState ==
  a # None
  => a.series.labels = LabelsAfter(ConstructionLabels(ctorCall.args.metadata), ops)

\* C22, the call: labels(m) removes no key, gives the keys of m the values of
\* m, keeps the value of every other key, and changes neither the value nor
\* the samples of the metric.
C22_LabelsCall ==
  IsCall("labels")
  => LET m == Last(ops').labels
     IN /\ DOMAIN a'.series.labels = DOMAIN a.series.labels \cup DOMAIN m
        /\ \A k \in DOMAIN m : a'.series.labels[k] = m[k]
        /\ \A k \in DOMAIN a.series.labels \ DOMAIN m :
             a'.series.labels[k] = a.series.labels[k]
        /\ a'.counter = a.counter
        /\ a'.series.samples = a.series.samples

\* C22: after labels(m1) ... labels(mn) the label set is the construction
\* labels overridden left to right by m1..mn (last write wins, no key is
\* removed), and labels() changes neither the value nor the samples.
C22_LabelsAccumulate ==
  []C22_LabelsState /\ [][C22_LabelsCall]_vars

\* three labels() calls, the third re-supplies the key of the first: the
\* last value of `status` wins and `endpoint` of the second call is kept
C22_Witness ==
  /\ a # None
  /\ Len(ops) = 3
  /\ \A i \in 1..3 : ops[i].op = "labels"
  /\ ops[1].labels = [status |-> "success"]
  /\ ops[2].labels = [endpoint |-> "/login"]
  /\ ops[3].labels = [name |-> "renamed", status |-> "failure"]
  /\ a.series.labels["status"] = "failure"
  /\ a.series.labels["endpoint"] = "/login"
  /\ a.series.labels["name"] = "renamed"

\* the step is a scope exit of `a`
IsDispose ==
  /\ Len(ops') = Len(ops) + 2
  /\ ops'[Len(ops) + 1].op = "dispose.collect"
  /\ ops'[Len(ops) + 2].op = "dispose.reset"

\* the calls a scope exit logged, in call order
DisposeCalls == SelectSeq(ops, LAMBDA c : c.op \in {"dispose.collect", "dispose.reset"})

\* C21: a scope exit of a metric calls collect() once and then reset(), in
\* that order: it writes exactly one Event document to stdout, and the
\* document carries the labels and the samples the metric had before the
\* reset, under the Event name.
C21_DisposeCollectsThenResets ==
  [][IsDispose
       => /\ Len(stdout') = Len(stdout) + 1
          /\ SubSeq(stdout', 1, Len(stdout)) = stdout
          /\ EventIs(Last(stdout').json)
          /\ JSONlabels(Last(stdout').json.o["payload"].o["labels"]) = a.series.labels
          /\ JSONsamples(Last(stdout').json.o["payload"].o["samples"]) = a.series.samples
          /\ Len(DisposeCalls') = Len(DisposeCalls) + 2]_vars

\* a metric that was incremented by 2 left its scope: one document with the
\* two samples it had
C21_Witness ==
  /\ a # None
  /\ Len(ops) = 3
  /\ ops[1].op = "inc" /\ ops[1].value = 2
  /\ ops[2].op = "dispose.collect"
  /\ ops[3].op = "dispose.reset"
  /\ Len(stdout) = 1
  /\ JSONsamples(stdout[1].json.o["payload"].o["samples"]) = <<a.initialValue, a.initialValue + 2>>

\* ------------------------------------------------------------------------
\* Properties of Event.is (SpecEvent)
\* ------------------------------------------------------------------------

IsNonNullObject(j) == j.t \in {"object", "array"}

\* C7: Event.is(input) is true exactly when input is a non-null object with
\* a `name` key strictly equal to "prometheus-remote-writer" and a `payload`
\* key whose value is a non-null object.
C7_EventIsExact ==
  evIn # None =>
    (evOut <=>
       /\ evIn.t = "object"
       /\ "name" \in DOMAIN evIn.o
       /\ "payload" \in DOMAIN evIn.o
       /\ evIn.o["name"].t = "string"
       /\ evIn.o["name"].v = EventName
       /\ IsNonNullObject(evIn.o["payload"]))

\* ------------------------------------------------------------------------
\* Properties of the reporter (Spec)
\* ------------------------------------------------------------------------

\* the pushes invocation i made
PushesOf(i, log) == {k \in 1..Len(log) : log[k].id = i}

\* invocation i is complete after this step and was not before it
Completes(i) ==
  /\ i \in 1..Len(hist')
  /\ hist'[i].status # "pending"
  /\ (i > Len(hist) \/ hist[i].status = "pending")

\* the series named n (before the prefix) in a batch
Named(batch, n) ==
  {j \in 1..Len(batch) : batch[j].labels["__name__"] = prefix \o n}

\* a metric as its constructor leaves it
IsFresh(m) ==
  /\ Len(m.series.samples) = 1
  /\ m.counter = m.initialValue
  /\ DOMAIN m.series.labels = {"__name__"} \cup (DOMAIN m.metadata \ {"name"})

PerTestFields ==
  {"test", "test_duration", "test_retry_count", "test_step",
   "test_attachment_size", "test_annotation_count"}

\* C3: after an onTestEnd invocation whose push resolved, every per-test
\* metric (test, test_duration, test_retry_count, test_step,
\* test_attachment_size, test_annotation_count) is in its fresh state: one
\* sample and no label of the finished test.
C3_PerTestMetricsFreshAfterTestEnd ==
  (hist # << >> /\ Last(hist).hook = "onTestEnd" /\ Last(hist).status = "resolved")
    => \A f \in PerTestFields : IsFresh(metrics[f])

\* the stdout counter went up by one sample of one, with the given label
StdoutCounted(internal) ==
  /\ metrics'.pw_stdout.counter = metrics.pw_stdout.counter + 1
  /\ Len(metrics'.pw_stdout.series.samples) =
       Len(metrics.pw_stdout.series.samples) + 1
  /\ "internal" \in DOMAIN metrics'.pw_stdout.series.labels
  /\ metrics'.pw_stdout.series.labels["internal"] = internal

\* C4: an onStdOut invocation whose chunk parses to a value Event.is accepts
\* makes exactly one push, of the payload with `__name__` prefixed and the
\* samples unchanged, and counts the chunk once with internal="true".
C4_EventChunkPushedAndCountedInternal ==
  [][\A i \in 1..Len(hist') :
       ( /\ Completes(i)
         /\ hist'[i].hook = "onStdOut"
         /\ JSONparse(hist'[i].args.chunk).t # "SyntaxError"
         /\ EventIs(JSONparse(hist'[i].args.chunk)) )
       => LET payload == JSONparse(hist'[i].args.chunk).o["payload"]
          IN /\ Cardinality(PushesOf(i, pushes')) = 1
             /\ \A k \in PushesOf(i, pushes') :
                  /\ Len(pushes'[k].series) = 1
                  /\ pushes'[k].series[1].labels["__name__"] =
                       prefix \o payload.o["labels"].o["__name__"].v
                  /\ pushes'[k].series[1].samples =
                       JSONsamples(payload.o["samples"])
             /\ StdoutCounted("true")]_vars

\* C5: an onStdOut invocation whose chunk is no valid Event (it does not
\* parse, or it parses to a value Event.is rejects) makes no push and counts
\* the chunk once with internal="false".
C5_OtherChunkCountedNotPushed ==
  [][\A i \in 1..Len(hist') :
       ( /\ Completes(i)
         /\ hist'[i].hook = "onStdOut"
         /\ \/ JSONparse(hist'[i].args.chunk).t = "SyntaxError"
            \/ ~EventIs(JSONparse(hist'[i].args.chunk)) )
       => /\ PushesOf(i, pushes') = {}
          /\ StdoutCounted("false")]_vars

\* C6: when a push rejects, the hook that made it rejects too, nothing of
\* the hook runs after the push and it makes no other push.
C6_RejectedPushRejectsHook ==
  [][\A k \in 1..Len(pushes) :
       (pushes[k].outcome = "pending" /\ pushes'[k].outcome = "rejected")
       => /\ hist'[pushes[k].id].status = "rejected"
          /\ metrics' = metrics
          /\ Len(pushes') = Len(pushes)]_vars

\* some push carried the series of metric m
WasPushed(m) ==
  \E k \in 1..Len(pushes) :
    \E j \in 1..Len(pushes[k].series) :
      pushes[k].series[j].labels["__name__"] =
        prefix \o m.series.labels["__name__"]

\* C8: once onExit has completed with every push resolved, each run-level
\* metric that was updated during the run was in at least one push; among
\* them error_count, test_errors and test_attachment_count.
C8_UpdatedRunMetricsPushed ==
  ( /\ phase = "exited"
    /\ Last(hist).status = "resolved"
    /\ \A k \in 1..Len(pushes) : pushes[k].outcome = "resolved" )
  => \A f \in {"errors_count", "test_errors", "test_attachment_count",
               "pw_stdout", "pw_stderr", "test_total_count", "total_duration",
               "tests_total_attachment", "tests_total_attachment_size"} :
       Len(metrics[f].series.samples) > 1 => WasPushed(metrics[f])

RECURSIVE SumSizes(_)
SumSizes(attachments) ==
  IF Len(attachments) = 0 THEN 0
  ELSE AttachSize(Head(attachments)) + SumSizes(Tail(attachments))

\* C9: when every push resolves, the test_attachment_size series onTestEnd
\* pushes for a test ends with the sum of the body sizes of the attachments
\* of that test.
C9_AttachmentSizeIsPerTest ==
  (\A k \in 1..Len(pushes) : pushes[k].outcome # "rejected")
  => \A k \in 1..Len(pushes) :
       hist[pushes[k].id].hook = "onTestEnd"
       => \A j \in Named(pushes[k].series, "test_attachment_size") :
            Last(pushes[k].series[j].samples) =
              SumSizes(hist[pushes[k].id].args.result.attachments)

\* the step is the one in which onTestEnd invocation i makes its push
TestEndPushes(i) ==
  /\ Len(pushes') = Len(pushes) + 1
  /\ Last(pushes').id = i
  /\ i = Len(hist')
  /\ hist'[i].hook = "onTestEnd"

ResetBy(f) == metrics'[f] # metrics[f] /\ IsFresh(metrics'[f])

\* C10, the state part: every onTestEnd invocation has exactly one push, and
\* its batch has a `test` series labelled with the test and with
\* actualStatus = result.status, and `test`, `test_duration` and
\* `test_retry_count` series that carry the samples this invocation added.
C10_Batch ==
  \A i \in 1..Len(hist) :
    hist[i].hook = "onTestEnd"
    => /\ Cardinality(PushesOf(i, pushes)) = 1
       /\ \A k \in PushesOf(i, pushes) :
            LET batch == pushes[k].series
                result == hist[i].args.result
            IN /\ Named(batch, "test") # {}
               /\ \A j \in Named(batch, "test") :
                    /\ batch[j].labels["actualStatus"] = result.status
                    /\ batch[j].labels["id"] = hist[i].args.test.id
                    /\ Len(batch[j].samples) >= 2
               /\ Named(batch, "test_duration") # {}
               /\ \A j \in Named(batch, "test_duration") :
                    /\ Last(batch[j].samples) = result.duration
                    /\ Len(batch[j].samples) >= 2
               /\ Named(batch, "test_retry_count") # {}
               /\ \A j \in Named(batch, "test_retry_count") :
                    Len(batch[j].samples) >= 2

\* C10, the order: when onTestEnd pushes, the totals, the attachment and
\* annotation counters and the per-test metrics are already updated and the
\* batch is taken from them; a step that resets a per-test metric makes no
\* push and belongs to an invocation whose push is made.
C10_Order ==
  /\ \A i \in 1..Len(hist') :
       TestEndPushes(i)
       => LET batch == Last(pushes').series
              test == hist'[i].args.test
              result == hist'[i].args.result
          IN /\ metrics'.test_total_count.counter =
                  metrics.test_total_count.counter + 1
             /\ metrics'.tests_total_attachment.counter =
                  metrics.tests_total_attachment.counter + Len(result.attachments)
             /\ metrics'.test_annotation_count.counter =
                  metrics.test_annotation_count.counter + Len(test.annotations)
             /\ \A f \in PerTestFields \ {"test_step"} :
                  \E j \in 1..Len(batch) :
                    batch[j].samples = metrics'[f].series.samples
             /\ \A f \in PerTestFields : ~ResetBy(f)
  /\ (\E f \in PerTestFields : ResetBy(f))
       => /\ pushes' = [k \in 1..Len(pushes) |->
                          [pushes[k] EXCEPT !.outcome = pushes'[k].outcome]]
          /\ \E i \in 1..Len(hist) :
               /\ hist[i].hook = "onTestEnd"
               /\ Completes(i)
               /\ PushesOf(i, pushes) # {}

\* C10: each onTestEnd invocation makes exactly one push, after its metric
\* updates and before any per-test metric is reset, and the batch has a
\* `test` series whose actualStatus is result.status.
C10_OnePushBetweenUpdatesAndResets ==
  []C10_Batch /\ [][C10_Order]_vars

\* a test expected to fail that passed: its push resolved, the batch says
\* actualStatus="passed", and the per-test `test` counter is reset
C10_Witness ==
  /\ hist # << >>
  /\ Last(hist).hook = "onTestEnd"
  /\ Last(hist).status = "resolved"
  /\ Last(hist).args.result.status # Last(hist).args.test.expectedStatus
  /\ Cardinality(PushesOf(Len(hist), pushes)) = 1
  /\ IsFresh(metrics.test)

\* the metrics the reporter holds after the step
HeldMetrics ==
  {metrics'[f] : f \in DOMAIN metrics'}
    \cup {pw_projects'[i] : i \in 1..Len(pw_projects')}

\* series s is what metric m hands over: the prefix once in front of the
\* name given at construction, every other label and the samples as they are
FlushOf(s, m) ==
  /\ s.labels["__name__"] = prefix \o m.metadata["name"]
  /\ Rest(s.labels, "__name__") = Rest(m.series.labels, "__name__")
  /\ s.samples = m.series.samples

\* series s is what a parsed payload hands over
FlushOfPayload(s, payload) ==
  /\ s.labels["__name__"] = prefix \o payload.o["labels"].o["__name__"].v
  /\ Rest(s.labels, "__name__") = Rest(JSONlabels(payload.o["labels"]), "__name__")
  /\ s.samples = JSONsamples(payload.o["samples"])

\* C14, the metrics: the name a metric of the reporter stores is the name it
\* was constructed with, whatever was flushed before.
C14_NameKept ==
  \A f \in DOMAIN metrics :
    metrics[f].series.labels["__name__"] = metrics[f].metadata["name"]

\* C14, the flush: every series of a batch handed to the push client is a
\* metric of the reporter (or the payload of the chunk, for onStdOut) with
\* the prefix once in front of its name and all else unchanged.
C14_Flush ==
  Len(pushes') > Len(pushes)
  => LET push == Last(pushes')
     IN \A j \in 1..Len(push.series) :
          IF hist'[push.id].hook = "onStdOut"
          THEN FlushOfPayload(push.series[j],
                              JSONparse(hist'[push.id].args.chunk).o["payload"])
          ELSE \E m \in HeldMetrics : FlushOf(push.series[j], m)

\* C14: every series handed to the push client has `__name__` equal to the
\* configured prefix followed by the metric's original name, the prefix being
\* applied once however often the metric was flushed before; the other
\* labels and the samples pass unchanged and the metric keeps its name.
C14_PrefixedOnce ==
  []C14_NameKept /\ [][C14_Flush]_vars

\* test_step_total_count went out in two batches under the prefix "my_"
C14_Witness ==
  /\ prefix = "my_"
  /\ \E k1, k2 \in 1..Len(pushes) :
       /\ k1 < k2
       /\ Named(pushes[k1].series, "test_step_total_count") # {}
       /\ Named(pushes[k2].series, "test_step_total_count") # {}
       /\ \A j \in Named(pushes[k2].series, "test_step_total_count") :
            pushes[k2].series[j].labels["__name__"] = "my_test_step_total_count"

\* the onTestEnd invocations so far, and those with a given result status
TestEndsSoFar == {i \in 1..Len(hist) : hist[i].hook = "onTestEnd"}
TestEndsWith(status) ==
  {i \in TestEndsSoFar : hist[i].args.result.status = status}

RECURSIVE SumDurations(_)
SumDurations(invocations) ==
  IF invocations = {} THEN 0
  ELSE LET i == CHOOSE i \in invocations : TRUE
       IN hist[i].args.result.duration + SumDurations(invocations \ {i})

\* C20: tests_total_count is the number of onTestEnd invocations, the
\* passed, failed, skipped and timed-out counters are the numbers of
\* invocations with that result status, and tests_total_duration is the sum
\* of the result durations.
C20_TotalsCountTestEnds ==
  phase \in {"running", "ended", "exited"}
  => /\ metrics.test_total_count.counter = Cardinality(TestEndsSoFar)
     /\ metrics.passed_count.counter = Cardinality(TestEndsWith("passed"))
     /\ metrics.failed_count.counter = Cardinality(TestEndsWith("failed"))
     /\ metrics.skipped_tests_count.counter = Cardinality(TestEndsWith("skipped"))
     /\ metrics.timed_out_tests_count.counter =
          Cardinality(TestEndsWith("timedOut"))
     /\ metrics.total_duration.counter = SumDurations(TestEndsSoFar)

\* two tests ended, one timed out and one was interrupted
C20_Witness ==
  /\ Cardinality(TestEndsSoFar) = 2
  /\ Cardinality(TestEndsWith("timedOut")) = 1
  /\ Cardinality(TestEndsWith("interrupted")) = 1
  /\ metrics.test_total_count.counter = 2
  /\ metrics.total_duration.counter = 11

\* the env option the reporter was constructed with; none: the empty map
EnvOption ==
  IF Has(ctorCall.args, "env") THEN ctorCall.args.env ELSE EmptyLabels

\* value is the value of a variable of the process environment
FromProcessEnv(value) == \E e \in DOMAIN processEnv : processEnv[e] = value

\* C18: the environment series every push carries has the labels of
\* options.env and no other (none but its name when the reporter was
\* constructed without env), whatever the process environment is, and no
\* label of any pushed series holds a value of the process environment that
\* options.env did not pass under that key.
C18_EnvOnlyFromOptions ==
  \A k \in 1..Len(pushes) :
    \A j \in 1..Len(pushes[k].series) :
      LET labels == pushes[k].series[j].labels
      IN /\ labels["__name__"] = prefix \o "env"
              => Rest(labels, "__name__") = EnvOption
         /\ \A key \in DOMAIN labels :
              FromProcessEnv(labels[key])
              => (key \in DOMAIN EnvOption /\ EnvOption[key] = labels[key])

\* a reporter constructed without env, in a process whose environment holds
\* a token, has pushed its environment series: the name and nothing else
C18_Witness ==
  /\ phase = "exited"
  /\ ~Has(ctorCall.args, "env")
  /\ "API_TOKEN" \in DOMAIN processEnv
  /\ \E k \in 1..Len(pushes) :
       /\ pushes[k].outcome = "resolved"
       /\ Named(pushes[k].series, "env") # {}
       /\ \A j \in Named(pushes[k].series, "env") :
            DOMAIN pushes[k].series[j].labels = {"__name__"}

\* C23: the batch of an onTestEnd invocation holds no two series of the same
\* metric, and exactly one `test_duration` series.
C23_TestBatchWithoutDuplicates ==
  \A k \in 1..Len(pushes) :
    hist[pushes[k].id].hook = "onTestEnd"
    => LET batch == pushes[k].series
       IN /\ \A j1, j2 \in 1..Len(batch) :
               batch[j1].labels["__name__"] = batch[j2].labels["__name__"]
               => j1 = j2
          /\ Cardinality(Named(batch, "test_duration")) = 1

\* the label keys a metric has from its metadata
MetadataKeys == {"__name__", "description", "unit"}

\* C24: the series an onStepEnd invocation pushes carry, beside the labels of
\* the metadata, only labels built from its own step: after a step with an
\* error, the series of a step without error have none of errorMessage,
\* errorSnippet, errorStack, errorValue, errorPath.
C24_StepLabelsDoNotCarryOver ==
  \A k \in 1..Len(pushes) :
    hist[pushes[k].id].hook = "onStepEnd"
    => LET args == hist[pushes[k].id].args
           own == StepLabels(args.test, args.result, args.step)
           batch == pushes[k].series
       IN \A j \in 1..Len(batch) :
            \A key \in DOMAIN batch[j].labels \ MetadataKeys :
              /\ key \in DOMAIN own
              /\ batch[j].labels[key] = own[key]

\* the onStepEnd invocations so far, and those whose step has an error
StepEndsSoFar == {i \in 1..Len(hist) : hist[i].hook = "onStepEnd"}
StepEndsWithError == {i \in StepEndsSoFar : Has(hist[i].args.step, "error")}

RECURSIVE SumStepDurations(_)
SumStepDurations(invocations) ==
  IF invocations = {} THEN 0
  ELSE LET i == CHOOSE i \in invocations : TRUE
       IN hist[i].args.step.duration + SumStepDurations(invocations \ {i})

\* C25: test_step_total_duration is the sum of the durations of the steps
\* that ended, each duration counted once.
C25_StepTotalDurationIsSum ==
  phase \in {"running", "ended", "exited"}
  => metrics.test_step_total_duration.counter = SumStepDurations(StepEndsSoFar)

\* the names of the series of a step batch, in the order of the batch
StepBatchNames == <<"test_step_duration", "test_step_error_count", "test_step">>

\* the step is the one in which onStepEnd invocation i makes its push
StepEndPushes(i) ==
  /\ Len(pushes') = Len(pushes) + 1
  /\ Last(pushes').id = i
  /\ i = Len(hist')
  /\ hist'[i].hook = "onStepEnd"

StepFields == {"test_step_duration", "test_step_error_count", "test_step"}

\* C26, the state part: every onStepEnd invocation has exactly one push, and
\* its batch is the test_step_duration, the test_step_error_count and the
\* test_step series, each under the prefix, and nothing else.
C26_Batch ==
  \A i \in StepEndsSoFar :
    /\ Cardinality(PushesOf(i, pushes)) = 1
    /\ \A k \in PushesOf(i, pushes) :
         /\ Len(pushes[k].series) = Len(StepBatchNames)
         /\ \A j \in 1..Len(StepBatchNames) :
              pushes[k].series[j].labels["__name__"] = prefix \o StepBatchNames[j]

\* C26, the order: when onStepEnd pushes, the counters and labels of its step
\* are already updated and the batch is taken from them, and no step metric
\* is reset in that step; the step that completes the invocation makes no
\* further push.
C26_Order ==
  /\ \A i \in 1..Len(hist') :
       StepEndPushes(i)
       => LET batch == Last(pushes').series
              args == hist'[i].args
              own == StepLabels(args.test, args.result, args.step)
          IN /\ metrics'.test_step_total_count.counter =
                  metrics.test_step_total_count.counter + 1
             /\ metrics'.test_step_duration.counter =
                  metrics.test_step_duration.counter + args.step.duration
             /\ Has(args.step, "error")
                  => metrics'.test_step_error_count.counter =
                       metrics.test_step_error_count.counter + 1
             /\ batch[1].samples = metrics'.test_step_duration.series.samples
             /\ Last(batch[1].samples) = metrics'.test_step_duration.counter
             /\ batch[2].samples = metrics'.test_step_error_count.series.samples
             /\ \A key \in DOMAIN own :
                  /\ batch[1].labels[key] = own[key]
                  /\ batch[3].labels[key] = own[key]
             /\ \A f \in StepFields : ~ResetBy(f)
  /\ \A i \in StepEndsSoFar :
       Completes(i) => Len(pushes') = Len(pushes)

\* C26: each onStepEnd invocation makes exactly one push, after the counters
\* and labels of its step were updated and before any reset of the per-step
\* accumulator, and the batch is exactly the test_step_duration,
\* test_step_error_count and test_step series with prefixed names.
C26_OneStepPushAfterUpdates ==
  []C26_Batch /\ [][C26_Order]_vars

\* two steps ended under the prefix "my_", the second with an error: each
\* made its one push, and both pushes resolved
C26_Witness ==
  /\ prefix = "my_"
  /\ Cardinality(StepEndsSoFar) = 2
  /\ Has(Last(hist).args.step, "error")
  /\ Len(pushes) = 2
  /\ \A k \in 1..2 : pushes[k].outcome = "resolved"
  /\ pushes[2].series[2].labels["__name__"] = "my_test_step_error_count"
  /\ Last(pushes[2].series[2].samples) = 1

\* the pushes of invocation i, in call order
PushSeqOf(i) == SelectSeq(pushes, LAMBDA p : p.id = i)

\* onExit has completed and each of its pushes resolved
ExitResolved ==
  /\ phase = "exited"
  /\ Last(hist).hook = "onExit"
  /\ Last(hist).status = "resolved"

\* C27: onExit makes exactly two pushes: first the batch of the run-level
\* series (config, stdout, stderr, status totals, attachment totals, step
\* totals, one series per project), then the batch of the host-resource
\* snapshot.
C27_ExitPushesTwice ==
  ExitResolved
  => LET made == PushSeqOf(Len(hist))
     IN /\ Len(made) = 2
        /\ Named(made[1].series, "config") # {}
        /\ Named(made[1].series, "project") # {}
        /\ Named(made[2].series, "node_cpu_user") # {}

\* the gauges updateNodejsStats refreshes, by series name
RefreshedGauges ==
  {"node_cpu_user", "node_cpu_system", "node_memory_free",
   "node_memory_heap_total", "node_memory_heap_used", "node_memory_rss",
   "node_memory_external", "node_memory_array_buffers"}

\* C28: the host-resource batch onExit pushes has a series for every gauge
\* updateNodejsStats refreshes, free system memory among them, and the OS,
\* environment, argv and runtime-versions series.
C28_HostBatchHasEveryRefreshedGauge ==
  ExitResolved
  => LET batch == Last(PushSeqOf(Len(hist))).series
     IN \A n \in RefreshedGauges \cup {"node_os", "env", "node_argv", "node_versions"} :
          Named(batch, n) # {}

\* every push made before the k-th resolved
EarlierResolved(k) == \A k0 \in 1..(k - 1) : pushes[k0].outcome = "resolved"

\* C29: when every earlier push resolved, the batch of an onTestEnd
\* invocation has a `test` series that ends with 1, a `test_duration` series
\* that ends with result.duration and a `test_retry_count` series that ends
\* with result.retry, whatever tests finished before.
C29_PerTestValuesOfThisTest ==
  \A k \in 1..Len(pushes) :
    (hist[pushes[k].id].hook = "onTestEnd" /\ EarlierResolved(k))
    => LET batch == pushes[k].series
           result == hist[pushes[k].id].args.result
       IN /\ Named(batch, "test") # {}
          /\ \A j \in Named(batch, "test") : Last(batch[j].samples) = 1
          /\ Named(batch, "test_duration") # {}
          /\ \A j \in Named(batch, "test_duration") :
               Last(batch[j].samples) = result.duration
          /\ Named(batch, "test_retry_count") # {}
          /\ \A j \in Named(batch, "test_retry_count") :
               Last(batch[j].samples) = result.retry

\* two tests ended one after the other, each on its first retry, and the
\* push of the first resolved: the retry series of the second ends with 1
C29_Witness ==
  /\ Cardinality(TestEndsSoFar) = 2
  /\ \A i \in TestEndsSoFar : hist[i].args.result.retry = 1
  /\ Len(pushes) = 2
  /\ pushes[1].outcome = "resolved"
  /\ \A j \in Named(pushes[2].series, "test_retry_count") :
       pushes[2].series[j].samples = <<0, 1>>
  /\ \A j \in Named(pushes[2].series, "test") :
       pushes[2].series[j].samples = <<0, 1>>

StepErrorFields == {"test_step_error_count", "test_step_total_error"}

\* C30, the state: test_step_error_count and test_step_total_error are the
\* number of steps that ended with an error.
C30_ErrorCountersState ==
  phase \in {"running", "ended", "exited"}
  => \A f \in StepErrorFields :
       metrics[f].counter = Cardinality(StepEndsWithError)

\* C30, the call: an onStepEnd invocation adds one sample, one higher, to
\* each of the two counters when its step has an error, and leaves both as
\* they are when it has none.
C30_ErrorCountersCall ==
  \A i \in 1..Len(hist') :
    StepEndPushes(i)
    => \A f \in StepErrorFields :
         IF Has(hist'[i].args.step, "error")
         THEN /\ metrics'[f].counter = metrics[f].counter + 1
              /\ metrics'[f].series.samples =
                   Append(metrics[f].series.samples, metrics[f].counter + 1)
         ELSE metrics'[f] = metrics[f]

IsHook(hook) == Len(hist') = Len(hist) + 1 /\ Last(hist').hook = hook

\* the chunk parses as JSON
ParsesAsJSON(chunk) == JSONparse(chunk).t # "SyntaxError"

C37_JsonTagOfThisChunk ==
  (hist # << >> /\ Last(hist).hook = "onStdErr")
  => LET labels == metrics.pw_stderr.series.labels
     IN ("json" \in DOMAIN labels /\ labels["json"] = "true")
          <=> ParsesAsJSON(Last(hist).args.chunk)

\* the fields that hold the host-resource gauges
HostGaugeFields ==
  {"node_cpu_user", "node_cpu_system", "node_memory_free",
   "node_memory_heap_total", "node_memory_heap_used", "node_memory_rss",
   "node_memory_external", "node_memory_array_buffers"}

C34_RejectedPushLeavesNextTestClean ==
  \A k \in 1..Len(pushes) :
    hist[pushes[k].id].hook = "onTestEnd"
    => LET batch == pushes[k].series
           test == hist[pushes[k].id].args.test
       IN \A n \in {"test", "test_duration", "test_retry_count"} :
            \A j \in Named(batch, n) :
              /\ Len(batch[j].samples) = 2
              /\ batch[j].labels["id"] = test.id
              /\ n = "test" => Last(batch[j].samples) = 1

\* C35: tests_total_count is the sum of the passed, failed, skipped and
\* timed-out counters, whatever result statuses the host reported.
C35_TotalIsSumOfStatusCounters ==
  phase \in {"running", "ended", "exited"}
  => metrics.test_total_count.counter =
       metrics.passed_count.counter + metrics.failed_count.counter
         + metrics.skipped_tests_count.counter
         + metrics.timed_out_tests_count.counter

\* ------------------------------------------------------------------------
\* Properties of collected fixture metrics (SpecCollect)
\* ------------------------------------------------------------------------

\* the position in ops of the n-th collect call
CollectAt(n) ==
  CHOOSE i \in 1..Len(ops) :
    /\ ops[i].op = "collect"
    /\ Cardinality({j \in 1..i : ops[j].op = "collect"}) = n

Collects == {i \in 1..Len(ops) : ops[i].op = "collect"}

\* the samples a sequence of calls leaves, by the documented meaning of the calls
SamplesAfter(v0, calls) ==
  LET mutating == SelectSeq(calls, IsMutating)
  IN <<v0>> \o [k \in 1..Len(mutating) |-> FoldCalls(v0, SubSeq(mutating, 1, k))]

\* the n-th invocation of onStdOut
StdOutAt(n) ==
  CHOOSE i \in 1..Len(hist) :
    /\ hist[i].hook = "onStdOut"
    /\ Cardinality({j \in 1..i : hist[j].hook = "onStdOut"}) = n

\* C17, the pushes: nothing of a fixture metric is pushed that collect() did
\* not write, and the n-th document handed to onStdOut makes one push of one
\* series: the labels (the name behind the prefix) and the samples the
\* metric had when collect() was called the n-th time.
C17_Pushes ==
  /\ Len(stdout) = Cardinality(Collects)
  /\ Delivered <= Len(stdout)
  /\ \A k \in 1..Len(pushes) : hist[pushes[k].id].hook = "onStdOut"
  /\ \A n \in 1..Delivered :
       LET before == SubSeq(ops, 1, CollectAt(n))
           labels == LabelsAfter(ConstructionLabels(ctorCall.args.metadata), before)
           samples == SamplesAfter(AskedInitialValue, before)
       IN /\ Cardinality(PushesOf(StdOutAt(n), pushes)) = 1
          /\ \A k \in PushesOf(StdOutAt(n), pushes) :
               /\ Len(pushes[k].series) = 1
               /\ pushes[k].series[1].labels["__name__"] = prefix \o labels["__name__"]
               /\ Rest(pushes[k].series[1].labels, "__name__") =
                    Rest(labels, "__name__")
               /\ pushes[k].series[1].samples = samples

\* C17, collect(): the call changes neither value, labels nor samples.
C17_CollectReadsOnly ==
  IsCall("collect") => a' = a

\* C17: a metric of useCounterMetric / useGaugeMetric reaches a push only
\* through collect(); each collected document handed to onStdOut as one chunk
\* makes exactly one push of one series with the labels and samples of the
\* metric at the time of collect(), and collect() leaves the metric as it is.
C17_CollectedMetricPushedOnce ==
  []C17_Pushes /\ [][C17_CollectReadsOnly]_vars

\* a gauge of useGaugeMetric was set, collected, then incremented; the push
\* of its document resolved and carries the state at collect()
C17_Witness ==
  /\ a # None
  /\ a.kind = "Gauge"
  /\ Len(ops) = 3
  /\ ops[1].op = "set" /\ ops[1].value = 2
  /\ ops[2].op = "collect"
  /\ ops[3].op = "inc"
  /\ Len(pushes) = 1
  /\ pushes[1].outcome = "resolved"
  /\ pushes[1].series[1].labels["region"] = "us-east"
  /\ pushes[1].series[1].samples = <<0, 2>>
  /\ Len(a.series.samples) = 3

\* ------------------------------------------------------------------------
\* Properties of fixture metrics under a chunking host (SpecFixture)
\* ------------------------------------------------------------------------

\* every document written was handed over and every hook has completed with
\* its push resolved
AllHandedOver ==
  /\ DeliveredDocuments = Len(stdout)
  /\ tasks = {}
  /\ \A k \in 1..Len(pushes) : pushes[k].outcome = "resolved"

\* C33: once the host has handed over every byte collect() wrote, in chunks
\* of one document or of several, and every push resolved, each collected
\* payload was pushed exactly once: there is one push per document, in the
\* order of the collect() calls, of the payload of that document.
C33_NoCollectedMetricLost ==
  AllHandedOver
  => /\ Len(pushes) = Len(stdout)
     /\ \A n \in 1..Len(stdout) :
          pushes[n].series = <<MapPayload(prefix, stdout[n].json.o["payload"])>>

\* C36: the metric a fixture call creates has the `name` argument of the
\* call as its series name, whatever keys the labels argument has.
C36_FixtureNameIsSeriesName ==
  (a # None /\ ops = << >> /\ "fixture" \in DOMAIN ctorCall)
  => a.series.labels["__name__"] = ctorCall.fixture.name

\* ------------------------------------------------------------------------
\* Properties of the reporter under a host that does not wait (SpecOverlap)
\* ------------------------------------------------------------------------

\* C11: while an onTestEnd invocation is suspended between its updates and
\* its resets, no other hook invocation changes a per-test metric it updated:
\* a step that leaves the invocation suspended leaves those metrics as they
\* are, so the batch of each onTestEnd holds its own test only.
C11_NoConcurrentMutation ==
  [][\A t \in tasks :
       (t.hook = "onTestEnd" /\ t \in tasks')
       => \A f \in PerTestFields : metrics'[f] = metrics[f]]_vars

\* ------------------------------------------------------------------------
\* Properties of the constructor of the reporter (SpecCtor)
\* ------------------------------------------------------------------------

\* the serverUrl values of the model that are URLs
ValidUrls == {"http://x/write", "http://x"}

ConstructedWith(o) ==
  /\ ctorCall # None
  /\ ctorCall.ctor = "PrometheusReporter"
  /\ ctorCall.args = o

LacksServerUrl(o) == ~Has(o, "serverUrl")

\* C12: a constructor call whose options have no serverUrl, or one that is
\* no valid URL, throws: the reporter has no field assigned, no hook has run
\* and no push was made, in that state and ever after.
C12_NoReporterWithoutServerUrl ==
  \A o \in CtorOptions :
    (ConstructedWith(o) /\ (LacksServerUrl(o) \/ o.serverUrl \notin ValidUrls))
    => /\ thrown # None
       /\ phase = "threw"
       /\ metrics = None
       /\ options = None
       /\ hist = << >>
       /\ pushes = << >>
       /\ tasks = {}

\* the constructor was called with { prefix: "my_" } and threw
C12_Witness ==
  /\ ConstructedWith([prefix |-> "my_"])
  /\ thrown # None
  /\ phase = "threw"

\* C13: when the options have no serverUrl, the error the constructor throws
\* is the TypeError with the descriptive message "'serverUrl' is not defined
\* for 'playwright-prometheus-remote-write-reporter' package ...".
C13_DescriptiveErrorWithoutServerUrl ==
  \A o \in CtorOptions :
    (ConstructedWith(o) /\ LacksServerUrl(o))
    => /\ thrown # None
       /\ thrown.name = "TypeError"
       /\ thrown.message = NotDefinedError.message

====
